---------------------------- MODULE Spec2Model ----------------------------
(* Solar dryer controller (src/Solar_Dryer/Solar_Dryer.ino): the command      *)
(* protocol, the session state machine, the power arbitration and the         *)
(* control loop, as a state machine.                                          *)
(*                                                                            *)
(* Text is a sequence of one-character strings, so that prefix tests, field   *)
(* splitting, number parsing and the bounded file-name buffer are computed as *)
(* the firmware computes them.  Times are milliseconds of millis().  The      *)
(* float quantities (voltages, thresholds, calibration) are held in tenths.   *)
EXTENDS Integers, Sequences, FiniteSets, TLC

(* ------------------------------------------------------------------------ *)
(* Bounds of the model                                                        *)
(* ------------------------------------------------------------------------ *)
\* number of clock ticks after boot that the model follows
MaxTicks == 5
\* rows a session file may hold (header and marker rows included)
MaxRows == 3
\* rows of the files that earlier sessions have left on the card: a short
\* one and one of some hours of logging
ShortFileRows == 25
LongFileRows == 3280

(* ------------------------------------------------------------------------ *)
(* Program constants                                                          *)
(* ------------------------------------------------------------------------ *)
BT_CMD_BUFFER_SIZE == 128
MAX_FILENAME_LENGTH == 32
MAX_FILENAME_EEPROM_LENGTH == 32
alert_interval == 5000
\* delay(2000) of softReset and of the end of setup
ResetSettleMs == 2000
\* delay(1000) of stopLogging
StopDelayMs == 1000
\* the window of performTare
TareWindowMs == 5000
\* the window of initializeDHTSensor
DhtInitWindowMs == 3000
\* one clock tick of the model: the shortest delay a handler makes
TickMs == StopDelayMs
BootMs == ResetSettleMs
MaxTime == BootMs + MaxTicks * TickMs
\* ticks followed where the panel voltage does not change, and the time up to
\* which a soft reset begun at the last of them is followed
SessionTicks == 2
SessionUntil == BootMs + SessionTicks * TickMs
SettleUntil == SessionUntil + ResetSettleMs
\* ticks followed within one session under a changing panel voltage
PowerTicks == 3
PowerUntil == BootMs + PowerTicks * TickMs

WAITING_FOR_COMMAND == "WAITING_FOR_COMMAND"
LOGGING_DATA == "LOGGING_DATA"
DOWNLOADING_FILE == "DOWNLOADING_FILE"
SystemState == {WAITING_FOR_COMMAND, LOGGING_DATA, DOWNLOADING_FILE}

\* the relay pin: SOLAR_POWER_ACTIVE is LOW, AC_POWER_ACTIVE is HIGH
SOLAR_POWER_ACTIVE == "LOW"
AC_POWER_ACTIVE == "HIGH"

Sensors == {"Inside", "Middle", "Outside"}

(* ------------------------------------------------------------------------ *)
(* Text: the Arduino String operations the firmware uses                      *)
(* ------------------------------------------------------------------------ *)
LF == "\n"
CR == "\r"

Min(a, b) == IF a <= b THEN a ELSE b

\* String::startsWith
StartsWith(s, p) ==
    /\ Len(s) >= Len(p)
    /\ SubSeq(s, 1, Len(p)) = p

\* String::indexOf(ch, fromIndex): 0-based index, -1 when absent
IndexOf(s, ch, from) ==
    LET hits == {i \in 0..(Len(s) - 1) : i >= from /\ s[i + 1] = ch}
    IN  IF hits = {} THEN -1 ELSE CHOOSE i \in hits : \A j \in hits : i <= j

\* String::substring(left, right): characters left..right-1, 0-based; the
\* bounds are swapped when left > right and cut to the length
Substring(s, left, right) ==
    LET lo == IF left > right THEN right ELSE left
        hi == IF left > right THEN left ELSE right
    IN  IF lo >= Len(s) THEN <<>> ELSE SubSeq(s, lo + 1, Min(hi, Len(s)))

\* String::substring(left)
SubstringFrom(s, left) == Substring(s, left, Len(s))

Digits == {"0", "1", "2", "3", "4", "5", "6", "7", "8", "9"}

DigitValue(c) ==
    CASE c = "0" -> 0 [] c = "1" -> 1 [] c = "2" -> 2 [] c = "3" -> 3
      [] c = "4" -> 4 [] c = "5" -> 5 [] c = "6" -> 6 [] c = "7" -> 7
      [] c = "8" -> 8 [] c = "9" -> 9

\* value of the leading digits of s (0 when there are none)
RECURSIVE DigitsValue(_, _)
DigitsValue(s, acc) ==
    IF s = <<>> \/ Head(s) \notin Digits THEN acc
    ELSE DigitsValue(Tail(s), acc * 10 + DigitValue(Head(s)))

\* String::toInt / toFloat on whole numbers (atol): optional sign, then the
\* leading digits; anything else ends the number
ToNumber(s) ==
    IF s # <<>> /\ Head(s) = "-" THEN 0 - DigitsValue(Tail(s), 0)
    ELSE IF s # <<>> /\ Head(s) = "+" THEN DigitsValue(Tail(s), 0)
    ELSE DigitsValue(s, 0)

\* An unsigned long is held as its 32-bit two's complement value: a word of
\* 2^31 or more is the negative number 2^32 below it.
Int32Max == 2147483647

\* a - b between two unsigned 32-bit words
Sub32(a, b) ==
    IF a < 0 /\ b > 0 /\ a < b - Int32Max - 1
    THEN (a + Int32Max + 1) + (Int32Max - b + 1)
    ELSE IF a >= 0 /\ b < 0 /\ a > b + Int32Max
    THEN (a - Int32Max - 1) - (b + Int32Max + 1)
    ELSE a - b

\* a + b between an unsigned 32-bit word and a number b >= 0
Add32(a, b) ==
    IF a >= 0 /\ a > Int32Max - b
    THEN (a - Int32Max - 1) + (b - Int32Max - 1)
    ELSE a + b

\* quotient and remainder of an unsigned 32-bit word by 1000
\* (2^31 = 2147483 * 1000 + 648)
Div1000(a) ==
    IF a >= 0 THEN a \div 1000
    ELSE LET y == a + Int32Max + 1
         IN  (y \div 1000) + 2147483 + (((y % 1000) + 648) \div 1000)
Mod1000(a) ==
    IF a >= 0 THEN a % 1000
    ELSE LET y == a + Int32Max + 1
         IN  ((y % 1000) + 648) % 1000

\* a >= b between two unsigned 32-bit words
AtLeast32(a, b) == IF (a < 0) = (b < 0) THEN a >= b ELSE a < 0

(* ------------------------------------------------------------------------ *)
(* Literals of the protocol                                                   *)
(* ------------------------------------------------------------------------ *)
kNEW_DRYING ==
    <<"N","E","W","_","D","R","Y","I","N","G",":">>
kCONTINUED_DRYING ==
    <<"C","O","N","T","I","N","U","E","D","_","D","R","Y","I","N","G",":">>
kGETCONFIG ==
    <<"G","E","T","C","O","N","F","I","G">>
kSET ==
    <<"S","E","T",":">>
kSAVECONFIG ==
    <<"S","A","V","E","C","O","N","F","I","G">>
kDOWNLOAD_FILE ==
    <<"D","O","W","N","L","O","A","D","_","F","I","L","E">>
kRESET_SYSTEM ==
    <<"R","E","S","E","T","_","S","Y","S","T","E","M">>
kSTART ==
    <<"S","T","A","R","T">>
kSTOP ==
    <<"S","T","O","P">>
kT ==
    <<"T">>
kt ==
    <<"t">>
kGET_FILE ==
    <<"G","E","T","_","F","I","L","E",":">>
kBACK ==
    <<"B","A","C","K">>
kTXT ==
    <<".","t","x","t">>
kCALIB ==
    <<"C","A","L","I","B">>
kSOLAR_LOW ==
    <<"S","O","L","A","R","_","L","O","W">>
kSOLAR_HIGH ==
    <<"S","O","L","A","R","_","H","I","G","H">>
kDWELL_TIME ==
    <<"D","W","E","L","L","_","T","I","M","E">>
kREINIT_INT ==
    <<"R","E","I","N","I","T","_","I","N","T">>
kSD_LOG_INT ==
    <<"S","D","_","L","O","G","_","I","N","T">>
kDISPLAY_INT ==
    <<"D","I","S","P","L","A","Y","_","I","N","T">>
kBT_INT ==
    <<"B","T","_","I","N","T">>

(* ------------------------------------------------------------------------ *)
(* State                                                                      *)
(* ------------------------------------------------------------------------ *)
VARIABLES
    currentState,           \* SystemState
    isLogging,              \* bool isLogging
    fileOpen,               \* dataFile.isOpen()
    sdCardAvailable,        \* bool sdCardAvailable
    currentFileNameBuffer,  \* char currentFileNameBuffer[32], as a string
    currentFruit,           \* String currentFruit
    sessionStartTime,       \* String sessionStartTime
    sessionStartMillis,     \* unsigned long sessionStartMillis
    initialDateTime,        \* SessionDateTime initialDateTime
    config,                 \* the eight tunable globals
    eepromConfig,           \* the Config record at EEPROM offset 0
    eepromFilename,         \* the file-name record after it, up to its NUL
    sdFiles,                \* the files of the SD root: name -> rows
    relay,                  \* level of pin RELAY_POWER
    usingSolar,             \* bool usingSolar
    solarGoodStartTime,     \* unsigned long solarGoodStartTime
    solarBadStartTime,      \* unsigned long solarBadStartTime
    dhtAvailable,           \* dhtInside/Middle/Outside_available
    lastReinitAttempt,      \* unsigned long time stamps of loop()
    lastLogTime,
    lastPrintTime,
    lastBluetoothTime,
    lastAlertTime,
    btCmdBuffer,            \* btCmdBuffer[0 .. btCmdBufferIndex-1]
    pc,                     \* position of loop(): "loop" before it samples
                            \* millis(), "drain" inside processBluetoothCommands
    currentMillis,          \* the local currentMillis of the running pass
    now,                    \* millis()
    ticked,                 \* the clock advanced since the last pass ended
    solarVoltage,           \* the voltage on SOLAR_VOLTAGE_PIN, in volts
    geSince,                \* per level L: since when the voltage has been
                            \* >= L without interruption (-1: it is below)
    ltSince,                \* per level L: since when it has been < L
    btOut,                  \* lines written to bluetooth by the last step
    rxBytes,                \* bytes read from bluetooth by the last step
    lastCmd,                \* the commands dispatched by the last step
    evalCount,              \* handlePowerSwitching calls made by the last step
    holdActive,             \* evaluations since the last one below the high
    holdStart,              \*   threshold began on grid power: tick of the
    holdDue,                \*   first, whether the dwell time has passed
    holdSwitches            \*   since, relay changes made in between

progVars ==
    <<currentState, isLogging, fileOpen, sdCardAvailable,
      currentFileNameBuffer, currentFruit, sessionStartTime,
      sessionStartMillis, initialDateTime, config, eepromConfig,
      eepromFilename, sdFiles, relay, usingSolar, solarGoodStartTime,
      solarBadStartTime, dhtAvailable, lastReinitAttempt, lastLogTime,
      lastPrintTime, lastBluetoothTime, lastAlertTime, btCmdBuffer>>

loopVars == <<pc, currentMillis>>

envVars == <<solarVoltage, geSince, ltSince>>

holdVars == <<holdActive, holdStart, holdDue, holdSwitches>>

obsVars == <<btOut, rxBytes, lastCmd, evalCount>>

vars == <<progVars, loopVars, now, ticked, envVars, holdVars, obsVars>>

\* the program's globals, millis() and the link output as one value, on which
\* the handlers below are functions
Cur ==
    [ currentState |-> currentState, isLogging |-> isLogging,
      fileOpen |-> fileOpen, sdCardAvailable |-> sdCardAvailable,
      currentFileNameBuffer |-> currentFileNameBuffer,
      currentFruit |-> currentFruit, sessionStartTime |-> sessionStartTime,
      sessionStartMillis |-> sessionStartMillis,
      initialDateTime |-> initialDateTime, config |-> config,
      eepromConfig |-> eepromConfig, eepromFilename |-> eepromFilename,
      sdFiles |-> sdFiles, relay |-> relay, usingSolar |-> usingSolar,
      solarGoodStartTime |-> solarGoodStartTime,
      solarBadStartTime |-> solarBadStartTime, dhtAvailable |-> dhtAvailable,
      lastReinitAttempt |-> lastReinitAttempt, lastLogTime |-> lastLogTime,
      lastPrintTime |-> lastPrintTime,
      lastBluetoothTime |-> lastBluetoothTime,
      lastAlertTime |-> lastAlertTime, btCmdBuffer |-> btCmdBuffer,
      now |-> now, out |-> <<>>, cmds |-> <<>>, evals |-> 0 ]

\* the globals take the values of s
Commit(s) ==
    /\ currentState' = s.currentState
    /\ isLogging' = s.isLogging
    /\ fileOpen' = s.fileOpen
    /\ sdCardAvailable' = s.sdCardAvailable
    /\ currentFileNameBuffer' = s.currentFileNameBuffer
    /\ currentFruit' = s.currentFruit
    /\ sessionStartTime' = s.sessionStartTime
    /\ sessionStartMillis' = s.sessionStartMillis
    /\ initialDateTime' = s.initialDateTime
    /\ config' = s.config
    /\ eepromConfig' = s.eepromConfig
    /\ eepromFilename' = s.eepromFilename
    /\ sdFiles' = s.sdFiles
    /\ relay' = s.relay
    /\ usingSolar' = s.usingSolar
    /\ solarGoodStartTime' = s.solarGoodStartTime
    /\ solarBadStartTime' = s.solarBadStartTime
    /\ dhtAvailable' = s.dhtAvailable
    /\ lastReinitAttempt' = s.lastReinitAttempt
    /\ lastLogTime' = s.lastLogTime
    /\ lastPrintTime' = s.lastPrintTime
    /\ lastBluetoothTime' = s.lastBluetoothTime
    /\ lastAlertTime' = s.lastAlertTime
    /\ btCmdBuffer' = s.btCmdBuffer
    /\ now' = s.now
    /\ btOut' = s.out
    /\ lastCmd' = s.cmds
    /\ evalCount' = s.evals

\* one line on the link: its fixed text, the text printed after it and the
\* number printed after it
Line(t) == [t |-> t, a |-> <<>>, n |-> 0]
LineText(t, a) == [t |-> t, a |-> a, n |-> 0]
LineNum(t, n) == [t |-> t, a |-> <<>>, n |-> n]

\* bluetooth.println
Emit(s, line) == [s EXCEPT !.out = Append(@, line)]

\* delay(ms), and the time a bounded wait takes
Delay(s, ms) == [s EXCEPT !.now = Add32(@, ms)]

(* ------------------------------------------------------------------------ *)
(* Session manager                                                            *)
(* ------------------------------------------------------------------------ *)
sendAlert(s) ==
    Emit(Emit(s, Line("ALERT:SYSTEM_READY")),
         Line("OPTIONS:NEW_DRYING,CONTINUED_DRYING,DOWNLOAD_FILE"))

\* a soft reset that does not announce readiness again
softResetUnannounced(s) ==
    LET s1 == [s EXCEPT !.currentState = WAITING_FOR_COMMAND,
                        !.isLogging = FALSE,
                        !.fileOpen = FALSE,
                        !.currentFruit = <<>>,
                        !.sessionStartTime = <<>>,
                        !.sessionStartMillis = 0]
        s2 == Delay(Emit(s1, Line("STATUS:SYSTEM_RESET")), ResetSettleMs)
    IN  [s2 EXCEPT !.lastAlertTime = s2.now]

\* a soft reset that leaves the controller state as it is
softResetKeepsState(s) ==
    LET s1 == [s EXCEPT !.isLogging = FALSE,
                        !.fileOpen = FALSE,
                        !.currentFruit = <<>>,
                        !.sessionStartTime = <<>>,
                        !.sessionStartMillis = 0]
        s2 == Delay(Emit(s1, Line("STATUS:SYSTEM_RESET")), ResetSettleMs)
    IN  sendAlert([s2 EXCEPT !.lastAlertTime = s2.now])

softReset(s) ==
    LET s1 == [s EXCEPT !.currentState = WAITING_FOR_COMMAND,
                        !.isLogging = FALSE,
                        !.fileOpen = FALSE,
                        !.currentFruit = <<>>,
                        !.sessionStartTime = <<>>,
                        !.sessionStartMillis = 0]
        s2 == Delay(Emit(s1, Line("STATUS:SYSTEM_RESET")), ResetSettleMs)
    IN  sendAlert([s2 EXCEPT !.lastAlertTime = s2.now])

\* scaleReady: the HX711 answers within the window; otherwise the whole
\* window is waited out
performTare(s, scaleReady) ==
    LET s1 == Emit(s, Line("STATUS:TARING"))
    IN  IF scaleReady THEN Emit(s1, Line("OK:TARE_COMPLETE"))
        ELSE Emit(Delay(s1, TareWindowMs), Line("ERROR:Tare failed"))

\* the rows of a session file
HeaderRow == [k |-> "header", a |-> <<>>, ms |-> 0, solar |-> FALSE]
\* a marker row that does not carry the reference date and time
MarkerRowUndated(datetimeStr) ==
    [k |-> "marker", a |-> <<>>, ms |-> 0, solar |-> FALSE]

MarkerRow(datetimeStr) ==
    [k |-> "marker", a |-> datetimeStr, ms |-> 0, solar |-> FALSE]
DataRow(timestamp, elapsedMillis, solar) ==
    [k |-> "data", a |-> <<>>, ms |-> elapsedMillis, solar |-> solar,
     at |-> timestamp]

\* the remainder of C's x % m for m > 0: the sign follows x
CRem(x, m) == IF x >= 0 THEN x % m ELSE 0 - ((0 - x) % m)

\* daysInMonth without the leap-year rule
daysInMonthNoLeap(month, year) ==
    IF month = 2 THEN 28
    ELSE IF month \in {4, 6, 9, 11} THEN 30
    ELSE 31

daysInMonth(month, year) ==
    IF month = 2 THEN (IF CRem(year, 4) = 0 THEN 29 ELSE 28)
    ELSE IF month \in {4, 6, 9, 11} THEN 30
    ELSE 31

\* the while loop of calculateCurrentDateTime: days beyond the end of the
\* month are carried into the months and years that follow
RECURSIVE CarryDays(_)
CarryDays(r) ==
    IF r.day > daysInMonth(r.month, r.year)
    THEN LET r1 == [r EXCEPT !.day = @ - daysInMonth(r.month, r.year),
                             !.month = @ + 1]
         IN  CarryDays(IF r1.month > 12
                       THEN [r1 EXCEPT !.month = 1, !.year = @ + 1]
                       ELSE r1)
    ELSE r

\* calculateCurrentDateTime: the result for the reference `initial`
calculateCurrentDateTime(initial, elapsedSeconds) ==
    LET r1 == [initial EXCEPT !.second = @ + (elapsedSeconds % 60)]
        e1 == elapsedSeconds \div 60
        r2 == IF r1.second >= 60
              THEN [r1 EXCEPT !.second = @ - 60, !.minute = @ + 1]
              ELSE r1
        r3 == [r2 EXCEPT !.minute = @ + (e1 % 60)]
        e2 == e1 \div 60
        r4 == IF r3.minute >= 60
              THEN [r3 EXCEPT !.minute = @ - 60, !.hour = @ + 1]
              ELSE r3
        r5 == [r4 EXCEPT !.hour = @ + (e2 % 24)]
        e3 == e2 \div 24
        r6 == IF r5.hour >= 24
              THEN [r5 EXCEPT !.hour = @ - 24, !.day = @ + 1]
              ELSE r5
    IN  CarryDays([r6 EXCEPT !.day = @ + e3])

\* formatDateTime: the numbers printed, in the order of the format
formatDateTime(dt, millisPart) ==
    <<dt.year, dt.month, dt.day, dt.hour, dt.minute, dt.second,
      millisPart % 1000>>

\* the time stamp of a row logged elapsedMillis after the origin of a
\* session with the reference `initial`
Timestamp(initial, elapsedMillis) ==
    formatDateTime(calculateCurrentDateTime(initial, Div1000(elapsedMillis)),
                   Mod1000(elapsedMillis))

ReplaceSpaces(name) ==
    [i \in 1..Len(name) |-> IF name[i] = " " THEN "_" ELSE name[i]]

\* snprintf(currentFileNameBuffer, MAX_FILENAME_LENGTH, "%s_%s.txt", ...) and
\* the loop that replaces the spaces: at most 31 characters are kept
FormatFileName(fruit, datetime) ==
    LET full == fruit \o <<"_">> \o datetime \o kTXT
    IN  ReplaceSpaces(SubSeq(full, 1, Min(Len(full), MAX_FILENAME_LENGTH - 1)))

\* the characters written, up to the NUL
\* a save that keeps a file name that is on record already
saveLastFilenameKeepsFirst(s, filename) ==
    IF s.eepromFilename # <<>> THEN s
    ELSE [s EXCEPT !.eepromFilename =
            SubSeq(filename, 1, Min(Len(filename), MAX_FILENAME_EEPROM_LENGTH))]

saveLastFilenameToEEPROM(s, filename) ==
    [s EXCEPT !.eepromFilename =
        SubSeq(filename, 1, Min(Len(filename), MAX_FILENAME_EEPROM_LENGTH))]

loadLastFilenameFromEEPROM(s) ==
    [s EXCEPT !.currentFileNameBuffer = s.eepromFilename]

\* createNewFile that reports a failed open and yet leaves the handle open
createNewFileHalfOpen(s, fruit, datetime, sdOk) ==
    LET name == FormatFileName(fruit, datetime)
        s1 == [s EXCEPT !.fileOpen = TRUE, !.currentFileNameBuffer = name]
    IN  IF sdOk
        THEN Emit(saveLastFilenameToEEPROM(
                      [s1 EXCEPT !.sdFiles = (name :> <<HeaderRow>>) @@ @],
                      name),
                  Line("OK:FILE_CREATED"))
        ELSE Emit([s1 EXCEPT !.sdCardAvailable = FALSE, !.isLogging = FALSE],
                  Line("ERROR:FILE_CREATION_FAILED"))

\* sdOk: dataFile.open succeeds
createNewFile(s, fruit, datetime, sdOk) ==
    LET name == FormatFileName(fruit, datetime)
        s1 == [s EXCEPT !.fileOpen = FALSE, !.currentFileNameBuffer = name]
    IN  IF sdOk
        THEN Emit(saveLastFilenameToEEPROM(
                      [s1 EXCEPT !.fileOpen = TRUE,
                                 !.sdFiles = (name :> <<HeaderRow>>) @@ @],
                      name),
                  Line("OK:FILE_CREATED"))
        ELSE Emit([s1 EXCEPT !.sdCardAvailable = FALSE, !.isLogging = FALSE],
                  Line("ERROR:FILE_CREATION_FAILED"))

\* parseInitialDateTime: ok, and the fields it has written into the result
parseInitialDateTime(datetimeStr, result) ==
    IF Len(datetimeStr) # 15 THEN [ok |-> FALSE, dt |-> result]
    ELSE
      LET dt == [day    |-> ToNumber(Substring(datetimeStr, 0, 2)),
                 month  |-> ToNumber(Substring(datetimeStr, 2, 4)),
                 year   |-> ToNumber(Substring(datetimeStr, 4, 8)),
                 hour   |-> ToNumber(Substring(datetimeStr, 9, 11)),
                 minute |-> ToNumber(Substring(datetimeStr, 11, 13)),
                 second |-> ToNumber(Substring(datetimeStr, 13, 15))]
      IN  [ok |-> /\ dt.day >= 1 /\ dt.day <= 31
                  /\ dt.month >= 1 /\ dt.month <= 12
                  /\ dt.hour >= 0 /\ dt.hour <= 23
                  /\ dt.minute >= 0 /\ dt.minute <= 59
                  /\ dt.second >= 0 /\ dt.second <= 59,
           dt |-> dt]

handleNewDrying(s, command, sdOk, scaleReady) ==
    LET firstColon == IndexOf(command, ":", 11)
        secondColon == IndexOf(command, ":", firstColon + 1)
        fruit == Substring(command, 11, firstColon)
        date == Substring(command, firstColon + 1, secondColon)
        time == SubstringFrom(command, secondColon + 1)
        datetimeStr == date \o <<"_">> \o time
        p == parseInitialDateTime(datetimeStr, s.initialDateTime)
        s1 == [s EXCEPT !.initialDateTime = p.dt]
        s2 == [s1 EXCEPT !.currentFruit = fruit,
                         !.sessionStartTime = datetimeStr,
                         !.sessionStartMillis = s1.now]
        s3 == createNewFile(s2, fruit, datetimeStr, sdOk)
        s4 == [performTare(s3, scaleReady)
                 EXCEPT !.currentState = LOGGING_DATA]
    IN  IF firstColon = -1 \/ secondColon = -1
        THEN Emit(s, Line("ERROR:Invalid format"))
        ELSE IF ~p.ok
        THEN Emit(s1, Line("ERROR:Invalid datetime format"))
        ELSE IF s3.fileOpen
        THEN Emit(Emit(s4, LineText("OK:NEW_SESSION_CREATED:",
                                    s4.currentFileNameBuffer)),
                  Line("STATUS:READY_TO_START"))
        ELSE softReset(Emit(s3,
                 Line("ERROR:Failed to setup new drying session.")))

\* sdOk: dataFile.open succeeds
handleContinuedDrying(s, command, sdOk) ==
    LET firstColonIdx == IndexOf(command, ":", 0)
        secondColonIdx == IndexOf(command, ":", firstColonIdx + 1)
        date == Substring(command, firstColonIdx + 1, secondColonIdx)
        time == SubstringFrom(command, secondColonIdx + 1)
        datetimeStr == date \o <<"_">> \o time
        p == parseInitialDateTime(datetimeStr, s.initialDateTime)
        s1 == loadLastFilenameFromEEPROM([s EXCEPT !.initialDateTime = p.dt])
        name == s1.currentFileNameBuffer
        s2 == [s1 EXCEPT !.fileOpen = TRUE,
                         !.sessionStartMillis = s1.now,
                         !.currentState = LOGGING_DATA,
                         !.isLogging = TRUE,
                         !.sdFiles[name] = Append(@, MarkerRow(datetimeStr))]
    IN  IF firstColonIdx = -1
        THEN Emit(s, Line("ERROR:Invalid command format (missing first colon)"))
        ELSE IF secondColonIdx = -1
        THEN Emit(s, Line("ERROR:Invalid command format (missing second colon)"))
        ELSE IF ~p.ok
        THEN Emit([s EXCEPT !.initialDateTime = p.dt],
                  Line("ERROR:Invalid datetime format"))
        ELSE IF Len(name) = 0
        THEN softReset(Emit(s1, Line("ERROR:No previous file found in EEPROM")))
        ELSE IF name \notin DOMAIN s1.sdFiles
        THEN softReset(Emit(s1, Line("ERROR:File not found")))
        ELSE IF ~sdOk
        THEN softReset(Emit([s1 EXCEPT !.fileOpen = FALSE],
                            Line("ERROR:Could not open file for appending")))
        ELSE Emit(Emit(s2, LineText("OK:CONTINUED_SESSION:", name)),
                  Line("STATUS:LOGGING_STARTED"))

\* START that begins the elapsed time of the session anew when the session is
\* logging already
startLoggingRestarts(s) ==
    IF ~s.isLogging
    THEN IF ~s.fileOpen
         THEN softReset(Emit(s, Line("ERROR:No file open to start logging.")))
         ELSE Emit([s EXCEPT !.isLogging = TRUE, !.sessionStartMillis = s.now],
                   Line("STATUS:LOGGING_STARTED"))
    ELSE Emit([s EXCEPT !.sessionStartMillis = s.now],
              Line("STATUS:ALREADY_LOGGING"))

startLogging(s) ==
    IF ~s.isLogging
    THEN IF ~s.fileOpen
         THEN softReset(Emit(s, Line("ERROR:No file open to start logging.")))
         ELSE Emit([s EXCEPT !.isLogging = TRUE, !.sessionStartMillis = s.now],
                   Line("STATUS:LOGGING_STARTED"))
    ELSE Emit(s, Line("STATUS:ALREADY_LOGGING"))

\* stopLogging without the soft reset that follows: the file is closed and
\* the controller stays in LOGGING_DATA
stopLoggingStays(s) ==
    Delay(Emit([s EXCEPT !.isLogging = FALSE, !.fileOpen = FALSE],
               Line("STATUS:LOGGING_STOPPED")),
          StopDelayMs)

stopLogging(s) ==
    softReset(Delay(Emit([s EXCEPT !.isLogging = FALSE, !.fileOpen = FALSE],
                         Line("STATUS:LOGGING_STOPPED")),
                    StopDelayMs))

(* ------------------------------------------------------------------------ *)
(* Configuration store                                                        *)
(* ------------------------------------------------------------------------ *)
\* the compiled-in values; the three float fields are held in tenths
DefaultConfig ==
    [ calibration_factor |-> 10715,
      solar_threshold_low |-> 50,
      solar_threshold_high |-> 130,
      min_dwell_time |-> 5000,
      reinit_interval |-> 60000,
      sd_log_interval |-> 2000,
      display_interval |-> 5000,
      bluetooth_interval |-> 5000 ]

\* String::toFloat, in tenths: sign, digits, and the first digit after a point
ToFloatTenths(s) ==
    LET neg == s # <<>> /\ Head(s) = "-"
        body == IF s # <<>> /\ Head(s) \in {"-", "+"} THEN Tail(s) ELSE s
        dot == IndexOf(body, ".", 0)
        whole == DigitsValue(body, 0)
        intLen == IF dot = -1 THEN Len(body) ELSE dot
        allDigits == \A i \in 1..intLen : body[i] \in Digits
        frac == IF dot # -1 /\ allDigits /\ dot + 1 < Len(body)
                   /\ body[dot + 2] \in Digits
                THEN DigitValue(body[dot + 2]) ELSE 0
        mag == whole * 10 + frac
    IN  IF neg THEN 0 - mag ELSE mag

\* (unsigned long) of a float given in tenths: the fraction is dropped
CastUL(tenths) ==
    IF tenths >= 0 THEN tenths \div 10 ELSE 0 - ((0 - tenths) \div 10)

saveConfig(s) == [s EXCEPT !.eepromConfig = s.config]

\* loadConfig: each stored field that passes its test replaces the global
loadConfig(s) ==
    LET l == s.eepromConfig
        c1 == IF l.calibration_factor > 0 /\ l.calibration_factor < 200000
              THEN [s.config EXCEPT !.calibration_factor = l.calibration_factor]
              ELSE s.config
        c2 == IF l.solar_threshold_low >= 0 /\ l.solar_threshold_low < 500
              THEN [c1 EXCEPT !.solar_threshold_low = l.solar_threshold_low]
              ELSE c1
        c3 == IF l.solar_threshold_high > l.solar_threshold_low
                 /\ l.solar_threshold_high < 500
              THEN [c2 EXCEPT !.solar_threshold_high = l.solar_threshold_high]
              ELSE c2
        c4 == IF l.min_dwell_time > 0 /\ l.min_dwell_time < 600000
              THEN [c3 EXCEPT !.min_dwell_time = l.min_dwell_time]
              ELSE c3
        c5 == IF l.reinit_interval > 0 /\ l.reinit_interval < 3600000
              THEN [c4 EXCEPT !.reinit_interval = l.reinit_interval]
              ELSE c4
        c6 == IF l.sd_log_interval > 0 /\ l.sd_log_interval < 3600000
              THEN [c5 EXCEPT !.sd_log_interval = l.sd_log_interval]
              ELSE c5
        c7 == IF l.display_interval > 0 /\ l.display_interval < 60000
              THEN [c6 EXCEPT !.display_interval = l.display_interval]
              ELSE c6
        c8 == IF l.bluetooth_interval > 0 /\ l.bluetooth_interval < 60000
              THEN [c7 EXCEPT !.bluetooth_interval = l.bluetooth_interval]
              ELSE c7
    IN  [s EXCEPT !.config = c8]

\* a SET that also writes the record to the EEPROM
handleSetCommandSaves(s, command) ==
    LET firstColon == IndexOf(command, ":", 4)
        key == Substring(command, 4, firstColon)
        value == ToFloatTenths(SubstringFrom(command, firstColon + 1))
        c2 == IF key = kSOLAR_LOW
              THEN [s.config EXCEPT !.solar_threshold_low = value]
              ELSE IF key = kSOLAR_HIGH
              THEN [s.config EXCEPT !.solar_threshold_high = value]
              ELSE IF key = kDWELL_TIME
              THEN [s.config EXCEPT !.min_dwell_time = CastUL(value)]
              ELSE s.config
    IN  IF firstColon = -1 THEN s
        ELSE Emit(saveConfig([s EXCEPT !.config = c2]),
                  Line("OK:SETTING_UPDATED"))

handleSetCommand(s, command) ==
    LET firstColon == IndexOf(command, ":", 4)
        key == Substring(command, 4, firstColon)
        value == ToFloatTenths(SubstringFrom(command, firstColon + 1))
        c == s.config
        c2 == IF key = kCALIB THEN [c EXCEPT !.calibration_factor = value]
              ELSE IF key = kSOLAR_LOW
              THEN [c EXCEPT !.solar_threshold_low = value]
              ELSE IF key = kSOLAR_HIGH
              THEN [c EXCEPT !.solar_threshold_high = value]
              ELSE IF key = kDWELL_TIME
              THEN [c EXCEPT !.min_dwell_time = CastUL(value)]
              ELSE IF key = kREINIT_INT
              THEN [c EXCEPT !.reinit_interval = CastUL(value)]
              ELSE IF key = kSD_LOG_INT
              THEN [c EXCEPT !.sd_log_interval = CastUL(value)]
              ELSE IF key = kDISPLAY_INT
              THEN [c EXCEPT !.display_interval = CastUL(value)]
              ELSE IF key = kBT_INT
              THEN [c EXCEPT !.bluetooth_interval = CastUL(value)]
              ELSE c
    IN  IF firstColon = -1 THEN s
        ELSE Emit([s EXCEPT !.config = c2], Line("OK:SETTING_UPDATED"))

RECURSIVE EmitAll(_, _)
EmitAll(s, lines) ==
    IF lines = <<>> THEN s ELSE EmitAll(Emit(s, Head(lines)), Tail(lines))

handleConfigCommand(s, command) ==
    IF StartsWith(command, kGETCONFIG)
    THEN EmitAll(s,
           << Line("CONFIG:START"),
              LineNum("CONFIG:CALIB:", s.config.calibration_factor),
              LineNum("CONFIG:SOLAR_LOW:", s.config.solar_threshold_low),
              LineNum("CONFIG:SOLAR_HIGH:", s.config.solar_threshold_high),
              LineNum("CONFIG:DWELL_TIME:", s.config.min_dwell_time),
              LineNum("CONFIG:REINIT_INT:", s.config.reinit_interval),
              LineNum("CONFIG:SD_LOG_INT:", s.config.sd_log_interval),
              LineNum("CONFIG:DISPLAY_INT:", s.config.display_interval),
              LineNum("CONFIG:BT_INT:", s.config.bluetooth_interval),
              Line("CONFIG:END") >>)
    ELSE IF StartsWith(command, kSET) THEN handleSetCommand(s, command)
    ELSE IF command = kSAVECONFIG
    THEN Emit(saveConfig(s), Line("OK:CONFIG_SAVED"))
    ELSE s

\* the test that routes a command to handleConfigCommand
IsConfigCommand(command) ==
    \/ StartsWith(command, kGETCONFIG)
    \/ StartsWith(command, kSET)
    \/ command = kSAVECONFIG

(* ------------------------------------------------------------------------ *)
(* Storage: listing and streaming files                                       *)
(* ------------------------------------------------------------------------ *)
\* the order in which openNext walks the root (any fixed order)
RECURSIVE DirOrder(_)
DirOrder(names) ==
    IF names = {} THEN <<>>
    ELSE LET n == CHOOSE x \in names : TRUE
         IN  <<n>> \o DirOrder(names \ {n})

RECURSIVE FileLines(_)
FileLines(names) ==
    IF names = <<>> THEN <<>>
    ELSE <<LineText("FILE:", Head(names))>> \o FileLines(Tail(names))

\* sdOk: root.open succeeds
listSDFiles(s, sdOk) ==
    LET s1 == Emit(s, Line("FILES_LIST_START"))
        s2 == IF sdOk THEN EmitAll(s1, FileLines(DirOrder(DOMAIN s.sdFiles)))
              ELSE Emit(s1, Line("ERROR:Could not open SD root"))
    IN  Emit(s2, Line("FILES_LIST_END"))

\* DOWNLOAD_FILE that lists the files and leaves the state as it is
handleDownloadFileListsOnly(s, sdOk) == listSDFiles(s, sdOk)

handleDownloadFile(s, sdOk) ==
    listSDFiles([s EXCEPT !.currentState = DOWNLOADING_FILE], sdOk)

\* a 16-bit int after an arithmetic result x
Int16(x) == ((x + 32768) % 65536) - 32768

\* char lineBuffer[128]
LineBufferSize == 128

\* the width of the text that formatDateTime returns: its buffer holds 23
\* characters and the end mark
TimestampChars == 23

\* the widest text that print gives for a reading: a temperature or a
\* humidity with one decimal (-99.0 to 150.0), the weight with one decimal
\* (ten digits before the point and a sign at most) and the voltage with two
TempChars == 5
WeightChars == 13
VoltageChars == 6

\* the number of characters that the row takes in the file before the end of
\* its line: the header as it is written, "# Time reference reset to: " and
\* the reference, and for a data row the timestamp, nine commas, the six
\* readings of the sensors, the weight, the voltage and SOLAR at the widest
RowChars(row) ==
    IF row.k = "header" THEN 106
    ELSE IF row.k = "marker" THEN 27 + Len(row.a)
    ELSE TimestampChars + 9 + 6 * TempChars + WeightChars + VoltageChars + 5

\* the line sent for one row of a file that is read as a whole
RowLine(row) == [t |-> row.k, a |-> row.a, n |-> row.ms, row |-> row]

\* the line sent for n characters of a row that is not read as a whole
PartLine(n) == [t |-> "part", a |-> <<>>, n |-> n]

\* the lengths of the lines that the loop of sendFileContent makes of c
\* characters followed by the end of the line, with a buffer of `size`: the
\* buffer is sent when it is full, the character read then is dropped, and
\* the end of the line sends what the buffer then holds
RECURSIVE Pieces(_, _)
Pieces(c, size) ==
    IF c < size - 1 THEN <<c>>
    ELSE <<size - 1>> \o Pieces(IF c > size THEN c - size ELSE 0, size)

\* the lines read with a buffer of 64 characters
ReadRowShortBuffer(row) ==
    LET pieces == Pieces(RowChars(row), 64)
    IN  [i \in 1..Len(pieces) |->
            IF pieces[i] = RowChars(row) THEN RowLine(row)
            ELSE PartLine(pieces[i])]

\* the lines that the loop of sendFileContent makes of one row of the file
ReadRow(row) ==
    LET pieces == Pieces(RowChars(row), LineBufferSize)
    IN  [i \in 1..Len(pieces) |->
            IF pieces[i] = RowChars(row) THEN RowLine(row)
            ELSE PartLine(pieces[i])]

\* the lines that the loop makes of the rows of a file
RECURSIVE ReadRows(_)
ReadRows(rows) ==
    IF rows = <<>> THEN <<>>
    ELSE IF Len(rows) = 1 THEN ReadRow(Head(rows))
    ELSE LET half == Len(rows) \div 2
         IN  ReadRows(SubSeq(rows, 1, half))
                 \o ReadRows(SubSeq(rows, half + 1, Len(rows)))

\* delay(100) after each line that is sent
LineDelayMs == 100

\* a turn that counts the lines from zero, so that the PROGRESS lines follow
\* the first, the eleventh, ... line
sendLineCountsFromZero(s, line, lineCount) ==
    LET count == Int16(lineCount + 1)
        s1 == Emit(s, line)
        s2 == IF CRem(lineCount, 10) = 0
              THEN Emit(s1, LineNum("PROGRESS:", CRem(Int16(count * 10), 100)))
              ELSE s1
    IN  Delay(s2, LineDelayMs)

\* one turn of the loop of sendFileContent at the end of a line: the line is
\* sent and counted, after every tenth one a PROGRESS line follows
sendLine(s, line, lineCount) ==
    LET count == Int16(lineCount + 1)
        s1 == Emit(s, line)
        s2 == IF CRem(count, 10) = 0
              THEN Emit(s1, LineNum("PROGRESS:", CRem(Int16(count * 10), 100)))
              ELSE s1
    IN  Delay(s2, LineDelayMs)

\* the loop of sendFileContent over the lines that it reads, lineCount lines
\* having been sent before
RECURSIVE SendRows(_, _, _)
SendRows(s, lines, lineCount) ==
    IF lines = <<>> THEN s
    ELSE IF Len(lines) = 1 THEN sendLine(s, Head(lines), lineCount)
    ELSE LET half == Len(lines) \div 2
             first == SendRows(s, SubSeq(lines, 1, half), lineCount)
         \* the first half is worked out before the second half is begun
         IN  IF Len(first.out) > Len(s.out)
             THEN SendRows(first, SubSeq(lines, half + 1, Len(lines)),
                           Int16(lineCount + half))
             ELSE first

\* sdOk: file.open succeeds
sendFileContent(s, filename, sdOk) ==
    LET name == SubSeq(filename, 1, Min(Len(filename), MAX_FILENAME_LENGTH - 1))
    IN  IF sdOk /\ name \in DOMAIN s.sdFiles
        THEN Emit(Emit(SendRows(Emit(s, LineText("FILE_CONTENT_START:",
                                                 filename)),
                                ReadRows(s.sdFiles[name]), 0),
                       LineNum("PROGRESS:", 100)),
                  Line("FILE_CONTENT_END"))
        ELSE Emit(s, Line("ERROR:File not found"))

(* ------------------------------------------------------------------------ *)
(* Power arbitration                                                          *)
(* ------------------------------------------------------------------------ *)
\* the notice sent whether or not a session is logging
SwitchNoticeAlways(s, text) == Emit(s, Line(text))

\* the notice of a switch on the link
SwitchNotice(s, text) == IF s.isLogging THEN Emit(s, Line(text)) ELSE s

\* the branch taken at or above the high threshold, with the dwell time
\* required to be exceeded
SolarGoodExceeds(s, cm) ==
    LET s1 ==
          IF s.relay # SOLAR_POWER_ACTIVE
          THEN IF s.solarGoodStartTime = 0
               THEN [s EXCEPT !.solarGoodStartTime = cm,
                              !.solarBadStartTime = 0]
               ELSE IF ~AtLeast32(s.config.min_dwell_time,
                                  Sub32(cm, s.solarGoodStartTime))
               THEN SwitchNotice([s EXCEPT !.relay = SOLAR_POWER_ACTIVE,
                                           !.usingSolar = TRUE,
                                           !.solarGoodStartTime = 0],
                                 "Switched to SOLAR")
               ELSE s
          ELSE s
    IN  [s1 EXCEPT !.solarBadStartTime = 0]

\* the branch taken at or above the high threshold
SolarGood(s, cm) ==
    LET s1 ==
          IF s.relay # SOLAR_POWER_ACTIVE
          THEN IF s.solarGoodStartTime = 0
               THEN [s EXCEPT !.solarGoodStartTime = cm,
                              !.solarBadStartTime = 0]
               ELSE IF AtLeast32(Sub32(cm, s.solarGoodStartTime),
                          s.config.min_dwell_time)
               THEN SwitchNotice([s EXCEPT !.relay = SOLAR_POWER_ACTIVE,
                                           !.usingSolar = TRUE,
                                           !.solarGoodStartTime = 0],
                                 "Switched to SOLAR")
               ELSE s
          ELSE s
    IN  [s1 EXCEPT !.solarBadStartTime = 0]

\* the branch taken below the low threshold
SolarBad(s, cm) ==
    LET s1 ==
          IF s.relay # AC_POWER_ACTIVE
          THEN IF s.solarBadStartTime = 0
               THEN [s EXCEPT !.solarBadStartTime = cm,
                              !.solarGoodStartTime = 0]
               ELSE IF AtLeast32(Sub32(cm, s.solarBadStartTime),
                          s.config.min_dwell_time)
               THEN SwitchNotice([s EXCEPT !.relay = AC_POWER_ACTIVE,
                                           !.usingSolar = FALSE,
                                           !.solarBadStartTime = 0],
                                 "Switched to AC")
               ELSE s
          ELSE s
    IN  [s1 EXCEPT !.solarGoodStartTime = 0]

\* the branch taken between the thresholds
SolarBetween(s) ==
    [s EXCEPT !.solarGoodStartTime = 0, !.solarBadStartTime = 0]

handlePowerSwitching(s, voltage, cm) ==
    IF voltage >= s.config.solar_threshold_high THEN SolarGood(s, cm)
    ELSE IF voltage < s.config.solar_threshold_low THEN SolarBad(s, cm)
    ELSE SolarBetween(s)

(* ------------------------------------------------------------------------ *)
(* Protocol engine                                                            *)
(* ------------------------------------------------------------------------ *)
\* the branch of processBluetoothCommands for WAITING_FOR_COMMAND
\* the WAITING_FOR_COMMAND branch with START handed to startLogging
dispatchWaitingStarts(s, command, sdOk, scaleReady) ==
    IF StartsWith(command, kNEW_DRYING)
    THEN handleNewDrying(s, command, sdOk, scaleReady)
    ELSE IF StartsWith(command, kCONTINUED_DRYING)
    THEN handleContinuedDrying(s, command, sdOk)
    ELSE IF IsConfigCommand(command) THEN handleConfigCommand(s, command)
    ELSE IF command = kDOWNLOAD_FILE THEN handleDownloadFile(s, sdOk)
    ELSE IF command = kRESET_SYSTEM THEN softReset(s)
    ELSE IF command = kSTART THEN startLogging(s)
    ELSE Emit(s, Line("ERROR:UNKNOWN_COMMAND_WAITING_STATE"))

dispatchWaiting(s, command, sdOk, scaleReady) ==
    IF StartsWith(command, kNEW_DRYING)
    THEN handleNewDrying(s, command, sdOk, scaleReady)
    ELSE IF StartsWith(command, kCONTINUED_DRYING)
    THEN handleContinuedDrying(s, command, sdOk)
    ELSE IF IsConfigCommand(command) THEN handleConfigCommand(s, command)
    ELSE IF command = kDOWNLOAD_FILE THEN handleDownloadFile(s, sdOk)
    ELSE IF command = kRESET_SYSTEM THEN softReset(s)
    ELSE Emit(s, Line("ERROR:UNKNOWN_COMMAND_WAITING_STATE"))

\* the branch for LOGGING_DATA
dispatchLogging(s, command, scaleReady) ==
    IF command = kSTART THEN startLogging(s)
    ELSE IF command = kSTOP THEN stopLogging(s)
    ELSE IF command = kT \/ command = kt THEN performTare(s, scaleReady)
    ELSE IF IsConfigCommand(command) THEN handleConfigCommand(s, command)
    ELSE IF command = kRESET_SYSTEM THEN stopLogging(s)
    ELSE Emit(s, Line("ERROR:UNKNOWN_COMMAND_LOGGING_STATE"))

\* the branch for DOWNLOADING_FILE
dispatchDownloading(s, command, sdOk) ==
    IF StartsWith(command, kGET_FILE)
    THEN sendFileContent(s, SubstringFrom(command, 9), sdOk)
    ELSE IF command = kBACK THEN softReset(s)
    ELSE IF command = kRESET_SYSTEM THEN softReset(s)
    ELSE Emit(s, Line("ERROR:UNKNOWN_COMMAND_DOWNLOADING_STATE"))

\* a complete line is acted upon according to currentState
dispatch(s, command, sdOk, scaleReady) ==
    LET s1 == [s EXCEPT !.cmds = Append(@, command)]
    IN  IF s.currentState = WAITING_FOR_COMMAND
        THEN dispatchWaiting(s1, command, sdOk, scaleReady)
        ELSE IF s.currentState = LOGGING_DATA
        THEN dispatchLogging(s1, command, scaleReady)
        ELSE dispatchDownloading(s1, command, sdOk)

\* what happens to a byte that is no line terminator
storeByte(s, inChar) ==
    IF Len(s.btCmdBuffer) < BT_CMD_BUFFER_SIZE - 1
    THEN [s EXCEPT !.btCmdBuffer = Append(@, inChar)]
    ELSE Emit([s EXCEPT !.btCmdBuffer = <<>>], Line("ERROR:Command too long"))

\* the body of the while loop of processBluetoothCommands for one byte
processByte(s, inChar, sdOk, scaleReady) ==
    IF inChar = LF \/ inChar = CR
    THEN IF Len(s.btCmdBuffer) > 0
         THEN [dispatch(s, s.btCmdBuffer, sdOk, scaleReady)
                 EXCEPT !.btCmdBuffer = <<>>]
         ELSE s
    ELSE storeByte(s, inChar)

\* processBluetoothCommands with the bytes `bytes` available
RECURSIVE processBluetoothCommands(_, _, _, _)
processBluetoothCommands(s, bytes, sdOk, scaleReady) ==
    IF bytes = <<>> THEN s
    ELSE IF Len(bytes) = 1
    THEN processByte(s, Head(bytes), sdOk, scaleReady)
    ELSE LET half == Len(bytes) \div 2
             first == processBluetoothCommands(s, SubSeq(bytes, 1, half),
                                               sdOk, scaleReady)
         \* the first half is worked out before the second half is begun
         IN  IF Len(first.btCmdBuffer) < BT_CMD_BUFFER_SIZE
             THEN processBluetoothCommands(first,
                                           SubSeq(bytes, half + 1, Len(bytes)),
                                           sdOk, scaleReady)
             ELSE first

(* ------------------------------------------------------------------------ *)
(* Control loop                                                               *)
(* ------------------------------------------------------------------------ *)
\* initializeDHTSensor for the sensors that are not available: a sensor in
\* `responding` connects at once, another is tried for the whole window
RECURSIVE reinitSensors(_, _, _)
reinitSensors(s, todo, responding) ==
    IF todo = <<>> THEN s
    ELSE LET x == Head(todo)
             s1 == IF s.dhtAvailable[x] THEN s
                   ELSE IF x \in responding
                   THEN [s EXCEPT !.dhtAvailable[x] = TRUE]
                   ELSE Delay(s, DhtInitWindowMs)
         IN  reinitSensors(s1, Tail(todo), responding)

\* reads after which a sensor that answers again counts as available
readSensorsRecovers(s, responding) ==
    [s EXCEPT !.dhtAvailable = [x \in Sensors |-> x \in responding]]

\* readDHTTemperature and readDHTHumidity of the three sensors
readSensors(s, responding) ==
    [s EXCEPT !.dhtAvailable =
        [x \in Sensors |-> s.dhtAvailable[x] /\ x \in responding]]

kSOLAR == <<"S","O","L","A","R">>
kAC == <<"A","C">>

\* the reading reported for a sensor: -99 when it is not available
Reading(s, x) == IF s.dhtAvailable[x] THEN 0 ELSE -99

\* the telemetry sent whether or not the session is logging
sendBluetoothStatusAlways(s, voltage) ==
    EmitAll(s,
      << Line("DATA_UPDATE"),
         LineNum("IN:", Reading(s, "Inside")),
         LineNum("MID:", Reading(s, "Middle")),
         LineNum("OUT:", Reading(s, "Outside")),
         Line("WEIGHT:"),
         LineNum("SOLAR:", voltage),
         LineText("POWER:", IF s.usingSolar THEN kSOLAR ELSE kAC) >>)

sendBluetoothStatus(s, voltage) ==
    IF ~s.isLogging THEN s
    ELSE EmitAll(s,
           << Line("DATA_UPDATE"),
              LineNum("IN:", Reading(s, "Inside")),
              LineNum("MID:", Reading(s, "Middle")),
              LineNum("OUT:", Reading(s, "Outside")),
              Line("WEIGHT:"),
              LineNum("SOLAR:", voltage),
              LineText("POWER:", IF s.usingSolar THEN kSOLAR ELSE kAC) >>)

\* a log that writes its row over the last row of the file
logDataToSDOverwrites(s, cm, sdOk) ==
    IF ~s.sdCardAvailable \/ ~s.isLogging \/ ~s.fileOpen THEN s
    ELSE IF ~sdOk \/ s.currentFileNameBuffer \notin DOMAIN s.sdFiles THEN s
    ELSE LET elapsedMillis == Sub32(cm, s.sessionStartMillis)
         IN  [s EXCEPT !.sdFiles[s.currentFileNameBuffer] =
                Append(SubSeq(@, 1, Len(@) - 1),
                       DataRow(Timestamp(s.initialDateTime, elapsedMillis),
                               elapsedMillis, s.usingSolar))]

\* sdOk: the write reaches the card
logDataToSD(s, cm, sdOk) ==
    IF ~s.sdCardAvailable \/ ~s.isLogging \/ ~s.fileOpen THEN s
    ELSE IF ~sdOk \/ s.currentFileNameBuffer \notin DOMAIN s.sdFiles THEN s
    ELSE LET elapsedMillis == Sub32(cm, s.sessionStartMillis)
         IN  [s EXCEPT !.sdFiles[s.currentFileNameBuffer] =
                Append(@, DataRow(Timestamp(s.initialDateTime, elapsedMillis),
                                  elapsedMillis, s.usingSolar))]

\* the part of loop() that runs in LOGGING_DATA
loopLogging(s, cm, voltage, responding, sdOk) ==
    LET s1 == IF AtLeast32(Sub32(cm, s.lastReinitAttempt), s.config.reinit_interval)
              THEN reinitSensors([s EXCEPT !.lastReinitAttempt = cm],
                                 <<"Inside", "Middle", "Outside">>, responding)
              ELSE s
        s2 == readSensors(s1, responding)
        s3 == [handlePowerSwitching(s2, voltage, cm) EXCEPT !.evals = @ + 1]
        s4 == IF AtLeast32(Sub32(cm, s3.lastPrintTime), s3.config.display_interval)
              THEN [s3 EXCEPT !.lastPrintTime = cm]
              ELSE s3
        s5 == IF AtLeast32(Sub32(cm, s4.lastBluetoothTime), s4.config.bluetooth_interval)
              THEN sendBluetoothStatus([s4 EXCEPT !.lastBluetoothTime = cm],
                                       voltage)
              ELSE s4
    IN  IF s5.isLogging /\ s5.sdCardAvailable /\ s5.fileOpen
           /\ AtLeast32(Sub32(cm, s5.lastLogTime), s5.config.sd_log_interval)
        THEN logDataToSD([s5 EXCEPT !.lastLogTime = cm], cm, sdOk)
        ELSE s5

\* the part of loop() that runs in WAITING_FOR_COMMAND
loopWaiting(s, cm) ==
    IF AtLeast32(Sub32(cm, s.lastAlertTime), alert_interval)
    THEN sendAlert([s EXCEPT !.lastAlertTime = cm])
    ELSE s

\* loop() after processBluetoothCommands
\* loop() with the sensors and the power source handled in every state but
\* WAITING_FOR_COMMAND
loopBodyAnywhere(s, cm, voltage, responding, sdOk) ==
    IF s.currentState = WAITING_FOR_COMMAND THEN loopWaiting(s, cm)
    ELSE loopLogging(s, cm, voltage, responding, sdOk)

loopBody(s, cm, voltage, responding, sdOk) ==
    IF s.currentState = WAITING_FOR_COMMAND THEN loopWaiting(s, cm)
    ELSE IF s.currentState # LOGGING_DATA THEN s
    ELSE loopLogging(s, cm, voltage, responding, sdOk)

(* ------------------------------------------------------------------------ *)
(* Inputs                                                                     *)
(* ------------------------------------------------------------------------ *)
Mango ==
    <<"M","a","n","g","o">>
LongLabel ==
    <<"D","r","a","g","o","n"," ","F","r","u","i","t"," ","1">>
Date1 ==
    <<"0","1","0","1","2","0","2","4">>
Time1 ==
    <<"0","8","0","0","0","0">>
Hello ==
    <<"H","E","L","L","O">>
MissingTxt ==
    <<"m","i","s","s","i","n","g",".","t","x","t">>

Labels == {Mango, LongLabel}

\* the labels of earlier sessions
Fig ==
    <<"F","i","g">>
Plum ==
    <<"P","l","u","m">>

NewDryingCmd(label, date, time) ==
    kNEW_DRYING \o label \o <<":">> \o date \o <<":">> \o time

ContinuedDryingCmd(date, time) ==
    kCONTINUED_DRYING \o date \o <<":">> \o time

SetCmd(key, value) == kSET \o key \o <<":">> \o value

GetFileCmd(name) == kGET_FILE \o name

\* the name the protocol promises for a session
SessionFileName(label, date, time) ==
    ReplaceSpaces(label) \o <<"_">> \o date \o <<"_">> \o time \o kTXT

\* a line that is longer than the command buffer: 127 bytes that fill it, the
\* byte that overflows it, and the bytes that follow up to the terminator
OverlongLine ==
    [i \in 1..(BT_CMD_BUFFER_SIZE - 1) |-> "A"] \o <<"X">> \o kRESET_SYSTEM

ConfigCommands ==
    {kGETCONFIG, kSAVECONFIG, SetCmd(kSOLAR_HIGH, <<"3">>)}

\* a key that handleSetCommand does not know
kCOLOR ==
    <<"C","O","L","O","R">>

\* SET commands with a known key: the key and the text of the value as sent,
\* the global the key names and the number the text stands for (the three
\* float fields in tenths)
KnownSets ==
    { [key |-> kSOLAR_LOW, text |-> <<"6","0">>,
       field |-> "solar_threshold_low", value |-> 600],
      [key |-> kSOLAR_HIGH, text |-> <<"4","0">>,
       field |-> "solar_threshold_high", value |-> 400],
      [key |-> kSOLAR_HIGH, text |-> <<"1","2",".","5">>,
       field |-> "solar_threshold_high", value |-> 125],
      [key |-> kDWELL_TIME, text |-> <<"1","0","0","0">>,
       field |-> "min_dwell_time", value |-> 1000] }

\* a SET command with a key that is not known
UnknownSet == SetCmd(kCOLOR, <<"7">>)

\* the rows of a file that a session has logged n rows to: the header and a
\* row for every tick of the default log interval
LoggedRows(n) ==
    LET initial == parseInitialDateTime(Date1 \o <<"_">> \o Time1, <<>>).dt
    IN  <<HeaderRow>> \o
          [i \in 1..(n - 1) |->
             DataRow(Timestamp(initial, i * DefaultConfig.sd_log_interval),
                     i * DefaultConfig.sd_log_interval, TRUE)]

\* the cards found at boot: an empty one, and one with the files of two
\* earlier sessions
NoFiles == [n \in {} |-> <<>>]
EarlierFiles ==
    (SessionFileName(Fig, Date1, Time1) :> LoggedRows(ShortFileRows))
        @@ (SessionFileName(Plum, Date1, Time1) :> LoggedRows(LongFileRows))
Cards == {NoFiles, EarlierFiles}

\* the voltages the panel takes, in tenths of a volt
Voltages == {40, 90, 140}

\* the sensors that answer during one pass
SensorOutcomes == {Sensors, Sensors \ {"Inside"}}

\* the Config records found in the EEPROM at boot: the defaults as saved by
\* SAVECONFIG, and the defaults with a dwell time of one second
ShortDwellConfig == [DefaultConfig EXCEPT !.min_dwell_time = TickMs]
\* low and high thresholds that a record may hold, in tenths of a volt: below
\* zero, the defaults, sane values and values of 50 V and more
StoredLows == {-10, 50, 200, 600}
StoredHighs == {30, 130, 400, 600}
ThresholdRecords ==
    { [DefaultConfig EXCEPT !.solar_threshold_low = l,
                            !.solar_threshold_high = h] :
        l \in StoredLows, h \in StoredHighs }
StoredConfigs == {DefaultConfig, ShortDwellConfig} \cup ThresholdRecords

\* the file-name record of an EEPROM that was never written: 32 bytes 0xFF
ErasedFilename == [i \in 1..MAX_FILENAME_EEPROM_LENGTH |-> "0xFF"]

(* ------------------------------------------------------------------------ *)
(* The voltage over time                                                      *)
(* ------------------------------------------------------------------------ *)
\* the time since which a condition has held, after a change at time t
HeldSince(holds, since, t) ==
    IF ~holds THEN -1 ELSE IF since # -1 THEN since ELSE t

\* the voltage has been >= h without interruption since time t or earlier
HighSince(h, t) ==
    LET above == {L \in Voltages : L >= h}
    IN  /\ above # {}
        /\ LET L == CHOOSE x \in above : \A y \in above : x <= y
           IN  geSince[L] # -1 /\ geSince[L] <= t

\* the voltage has been < l without interruption since time t or earlier
LowSince(l, t) ==
    LET above == {L \in Voltages : L >= l}
    IN  \/ above = {}
        \/ LET L == CHOOSE x \in above : \A y \in above : x <= y
           IN  ltSince[L] # -1 /\ ltSince[L] <= t

(* ------------------------------------------------------------------------ *)
(* Initial state: after setup()                                               *)
(* ------------------------------------------------------------------------ *)
NoObservation ==
    /\ btOut' = <<>>
    /\ rxBytes' = <<>>
    /\ lastCmd' = <<>>
    /\ evalCount' = 0

Init ==
    /\ currentState = WAITING_FOR_COMMAND
    /\ isLogging = FALSE
    /\ fileOpen = FALSE
    /\ sdCardAvailable = TRUE
    /\ currentFileNameBuffer = <<>>
    /\ currentFruit = <<>>
    /\ sessionStartTime = <<>>
    /\ sessionStartMillis = 0
    /\ initialDateTime = [day |-> 0, month |-> 0, year |-> 0,
                          hour |-> 0, minute |-> 0, second |-> 0]
    /\ eepromConfig \in StoredConfigs
    /\ config = loadConfig([config |-> DefaultConfig,
                            eepromConfig |-> eepromConfig]).config
    /\ eepromFilename \in {<<>>, ErasedFilename}
    /\ sdFiles \in Cards
    /\ relay = AC_POWER_ACTIVE
    /\ usingSolar = TRUE
    /\ solarGoodStartTime = 0
    /\ solarBadStartTime = 0
    /\ \E ok \in SensorOutcomes : dhtAvailable = [x \in Sensors |-> x \in ok]
    /\ lastReinitAttempt = 0
    /\ lastLogTime = 0
    /\ lastPrintTime = 0
    /\ lastBluetoothTime = 0
    /\ lastAlertTime = BootMs
    /\ btCmdBuffer = <<>>
    /\ pc = "loop"
    /\ currentMillis = 0
    /\ now = BootMs
    /\ ticked = FALSE
    /\ solarVoltage \in Voltages
    /\ geSince = [L \in Voltages |-> IF solarVoltage >= L THEN 0 ELSE -1]
    /\ ltSince = [L \in Voltages |-> IF solarVoltage < L THEN 0 ELSE -1]
    /\ btOut = << Line("ALERT:SYSTEM_READY"),
                  Line("OPTIONS:NEW_DRYING,CONTINUED_DRYING,DOWNLOAD_FILE") >>
    /\ rxBytes = <<>>
    /\ lastCmd = <<>>
    /\ evalCount = 0
    /\ holdActive = FALSE
    /\ holdStart = 0
    /\ holdDue = FALSE
    /\ holdSwitches = 0

(* ------------------------------------------------------------------------ *)
(* Steps                                                                      *)
(* ------------------------------------------------------------------------ *)
\* the model follows the clock up to the time `until` and lets a file
\* grow up to MaxRows rows
Bounded(s, until) ==
    /\ AtLeast32(until, s.now)
    /\ \A n \in DOMAIN s.sdFiles :
          \/ Len(s.sdFiles[n]) <= MaxRows
          \/ n \in DOMAIN sdFiles /\ s.sdFiles[n] = sdFiles[n]

\* loop() starts a pass: unsigned long currentMillis = millis()
LoopBegin ==
    /\ pc = "loop"
    /\ pc' = "drain"
    /\ currentMillis' = now
    /\ NoObservation
    /\ UNCHANGED <<progVars, now, ticked, envVars, holdVars>>

\* processBluetoothCommands reads the bytes that have arrived; sdOk: the card
\* answers while they are handled, scaleReady: so does the load cell
Receive(bytes, sdOk, scaleReady, until) ==
    /\ pc = "drain"
    /\ LET s2 == processBluetoothCommands(Cur, bytes, sdOk, scaleReady)
       IN  /\ Bounded(s2, until)
           /\ Commit(s2)
    /\ rxBytes' = bytes
    /\ UNCHANGED <<loopVars, ticked, envVars, holdVars>>

\* the run of evaluations at or above the high threshold that began on grid
\* power, after the evaluation that took s to s2
HoldAfter(s, s2) ==
    LET switched == IF s2.relay # s.relay THEN 1 ELSE 0
        due == AtLeast32(Sub32(currentMillis, holdStart),
                         s.config.min_dwell_time)
    IN  IF solarVoltage < s.config.solar_threshold_high
        THEN [active |-> FALSE, start |-> 0, due |-> FALSE, switches |-> 0]
        ELSE IF holdActive
        THEN [active |-> TRUE, start |-> holdStart, due |-> holdDue \/ due,
              switches |-> holdSwitches + switched]
        ELSE IF s.relay = AC_POWER_ACTIVE
        THEN [active |-> TRUE, start |-> currentMillis, due |-> FALSE,
              switches |-> switched]
        ELSE [active |-> FALSE, start |-> 0, due |-> FALSE, switches |-> 0]

\* the rest of the pass, after processBluetoothCommands has returned
LoopEnd(responding, sdOk, until) ==
    /\ pc = "drain"
    /\ LET s2 == loopBody(Cur, currentMillis, solarVoltage, responding, sdOk)
           h == IF currentState = LOGGING_DATA THEN HoldAfter(Cur, s2)
                ELSE [active |-> holdActive, start |-> holdStart,
                      due |-> holdDue, switches |-> holdSwitches]
       IN  /\ Bounded(s2, until)
           /\ Commit(s2)
           /\ holdActive' = h.active
           /\ holdStart' = h.start
           /\ holdDue' = h.due
           /\ holdSwitches' = h.switches
    /\ rxBytes' = <<>>
    /\ pc' = "loop"
    /\ currentMillis' = 0
    /\ ticked' = FALSE
    /\ UNCHANGED envVars

\* the clock advances between two passes, up to the time `until`, and the
\* panel voltage becomes v
Tick(v, until) ==
    /\ pc = "loop"
    /\ ~ticked
    /\ now + TickMs <= until
    /\ now' = now + TickMs
    /\ ticked' = TRUE
    /\ solarVoltage' = v
    /\ geSince' = [L \in Voltages |-> HeldSince(v >= L, geSince[L], now')]
    /\ ltSince' = [L \in Voltages |-> HeldSince(v < L, ltSince[L], now')]
    /\ NoObservation
    /\ UNCHANGED <<progVars, loopVars, holdVars>>

\* a time of d ms passes between two passes, up to the time `until`; the
\* passes made meanwhile are not followed
Sleep(d, until) ==
    /\ pc = "loop"
    /\ AtLeast32(Add32(now, d), now)
    /\ AtLeast32(until, Add32(now, d))
    /\ now' = Add32(now, d)
    /\ NoObservation
    /\ UNCHANGED <<progVars, loopVars, ticked, envVars, holdVars>>

\* setup() after a power cycle: the globals take their compiled-in values,
\* the EEPROM and the card keep their contents; the sensors in `responding`
\* answer
setup(s, responding) ==
    LET fresh == [s EXCEPT
                    !.currentState = WAITING_FOR_COMMAND,
                    !.isLogging = FALSE,
                    !.fileOpen = FALSE,
                    !.sdCardAvailable = TRUE,
                    !.currentFileNameBuffer = <<>>,
                    !.currentFruit = <<>>,
                    !.sessionStartTime = <<>>,
                    !.sessionStartMillis = 0,
                    !.initialDateTime = [day |-> 0, month |-> 0, year |-> 0,
                                         hour |-> 0, minute |-> 0,
                                         second |-> 0],
                    !.config = DefaultConfig,
                    !.relay = AC_POWER_ACTIVE,
                    !.usingSolar = TRUE,
                    !.solarGoodStartTime = 0,
                    !.solarBadStartTime = 0,
                    !.dhtAvailable = [x \in Sensors |-> x \in responding],
                    !.lastReinitAttempt = 0,
                    !.lastLogTime = 0,
                    !.lastPrintTime = 0,
                    !.lastBluetoothTime = 0,
                    !.lastAlertTime = BootMs,
                    !.btCmdBuffer = <<>>,
                    !.now = BootMs,
                    !.out = <<>>, !.cmds = <<>>, !.evals = 0]
    IN  sendAlert(loadConfig(fresh))

\* the power is cycled between two passes and setup() runs again
Reboot ==
    /\ pc = "loop"
    /\ \E ok \in SensorOutcomes : Commit(setup(Cur, ok))
    /\ rxBytes' = <<>>
    /\ ticked' = FALSE
    /\ geSince' = [L \in Voltages |-> IF solarVoltage >= L THEN 0 ELSE -1]
    /\ ltSince' = [L \in Voltages |-> IF solarVoltage < L THEN 0 ELSE -1]
    /\ holdActive' = FALSE
    /\ holdStart' = 0
    /\ holdDue' = FALSE
    /\ holdSwitches' = 0
    /\ UNCHANGED <<loopVars, solarVoltage>>

\* a command line with the answers of the card and of the load cell
Input(c, sdOk, scaleReady) ==
    [cmd |-> c, sdOk |-> sdOk, scaleReady |-> scaleReady]

Answered(S) == {Input(c, TRUE, TRUE) : c \in S}

\* the defaults are in the EEPROM, the sensors all answer, the panel is
\* between the thresholds
QuietStart ==
    /\ Init
    /\ sdFiles = NoFiles
    /\ eepromConfig = DefaultConfig
    /\ solarVoltage = 90
    /\ \A x \in Sensors : dhtAvailable[x]

\* a device on which a dwell time of one tick has been saved
PowerStart ==
    /\ Init
    /\ sdFiles = NoFiles
    /\ eepromConfig = ShortDwellConfig
    /\ eepromFilename = <<>>
    /\ \A x \in Sensors : dhtAvailable[x]

(* Sessions: creating, starting, stopping and resuming, with a card that may   *)
(* fail, under a steady panel voltage                                         *)
SessionInputs ==
    Answered({kSTART, kSTOP, kRESET_SYSTEM, kDOWNLOAD_FILE, kBACK,
              ContinuedDryingCmd(Date1, Time1)}
                 \cup {NewDryingCmd(l, Date1, Time1) : l \in Labels})
        \cup {Input(c, FALSE, TRUE) :
                 c \in {ContinuedDryingCmd(Date1, Time1),
                        NewDryingCmd(Mango, Date1, Time1)}}

NextSession ==
    \/ LoopBegin
    \/ \E i \in SessionInputs :
         Receive(i.cmd \o <<LF>>, i.sdOk, i.scaleReady, SettleUntil)
    \/ \E sdOk \in BOOLEAN : LoopEnd(Sensors, sdOk, SettleUntil)
    \/ Tick(solarVoltage, SessionUntil)

SpecSession == QuietStart /\ [][NextSession]_vars

(* The command protocol in the three states                                   *)
ProtocolInputs ==
    Answered({kSTART, kSTOP, kT, kDOWNLOAD_FILE, kBACK, OverlongLine,
              NewDryingCmd(Mango, Date1, Time1)} \cup ConfigCommands)

NextProtocol ==
    \/ LoopBegin
    \/ \E i \in ProtocolInputs :
         Receive(i.cmd \o <<LF>>, i.sdOk, i.scaleReady, SettleUntil)
    \/ LoopEnd(Sensors, TRUE, SettleUntil)
    \/ Tick(solarVoltage, SessionUntil)

SpecProtocol == QuietStart /\ [][NextProtocol]_vars

(* Power arbitration within one session, under a changing panel voltage       *)
PowerInputs ==
    Answered({kSTART, NewDryingCmd(Mango, Date1, Time1)})

NextPower ==
    \/ LoopBegin
    \/ \E i \in PowerInputs :
         Receive(i.cmd \o <<LF>>, i.sdOk, i.scaleReady, PowerUntil)
    \/ LoopEnd(Sensors, TRUE, PowerUntil)
    \/ \E v \in Voltages : Tick(v, PowerUntil)

SpecPower == PowerStart /\ [][NextPower]_vars

(* Power arbitration across sessions: a session is reset and another begun    *)
ResumeInputs ==
    Answered({kRESET_SYSTEM, NewDryingCmd(Mango, Date1, Time1)})

NextResume ==
    \/ LoopBegin
    \/ \E i \in ResumeInputs :
         Receive(i.cmd \o <<LF>>, i.sdOk, i.scaleReady, MaxTime)
    \/ LoopEnd(Sensors, TRUE, MaxTime)
    \/ \E v \in Voltages : Tick(v, MaxTime)

SpecResume == PowerStart /\ [][NextResume]_vars

(* Power arbitration after the high threshold has been set below the low one *)
ThresholdInputs ==
    Answered({NewDryingCmd(Mango, Date1, Time1), SetCmd(kSOLAR_HIGH, <<"3">>)})

NextThreshold ==
    \/ LoopBegin
    \/ \E i \in ThresholdInputs :
         Receive(i.cmd \o <<LF>>, i.sdOk, i.scaleReady, PowerUntil)
    \/ LoopEnd(Sensors, TRUE, PowerUntil)
    \/ \E v \in Voltages : Tick(v, PowerUntil)

SpecThreshold == PowerStart /\ [][NextThreshold]_vars

(* Sensor polling in and out of a session, under a steady panel voltage       *)
\* no earlier session is on record; the stored configuration, the panel
\* voltage and the sensors that answer are any of those of Init
PollingStart ==
    /\ Init
    /\ sdFiles = NoFiles
    /\ eepromFilename = <<>>
    /\ eepromConfig \in {DefaultConfig, ShortDwellConfig}

PollingInputs ==
    Answered({kSTART, kRESET_SYSTEM, kDOWNLOAD_FILE,
              NewDryingCmd(Mango, Date1, Time1)})

NextPolling ==
    \/ LoopBegin
    \/ \E i \in PollingInputs :
         Receive(i.cmd \o <<LF>>, i.sdOk, i.scaleReady, SettleUntil)
    \/ \E r \in SensorOutcomes : LoopEnd(r, TRUE, SettleUntil)
    \/ Tick(solarVoltage, SessionUntil)

SpecPolling == PollingStart /\ [][NextPolling]_vars

(* The configuration: set, dumped, saved and loaded again after a power      *)
(* cycle, in the Idle and FileBrowsing states                                 *)
ConfigInputs ==
    Answered({kGETCONFIG, kSAVECONFIG, UnknownSet, kDOWNLOAD_FILE, kBACK}
                 \cup {SetCmd(x.key, x.text) : x \in KnownSets})

NextConfig ==
    \/ LoopBegin
    \/ \E i \in ConfigInputs :
         Receive(i.cmd \o <<LF>>, i.sdOk, i.scaleReady, SettleUntil)
    \/ LoopEnd(Sensors, TRUE, SettleUntil)
    \/ Reboot

\* the defaults are in the EEPROM and no earlier session is on record
ConfigStart ==
    /\ QuietStart
    /\ eepromFilename = <<>>

SpecConfig == ConfigStart /\ [][NextConfig]_vars

(* Logging rows to a card that works during the passes and may fail while a  *)
(* session is created                                                         *)
LoggingInputs ==
    Answered({kSTART, kSTOP, NewDryingCmd(Mango, Date1, Time1)})
        \cup {Input(NewDryingCmd(Mango, Date1, Time1), FALSE, TRUE)}

NextLogging ==
    \/ LoopBegin
    \/ \E i \in LoggingInputs :
         Receive(i.cmd \o <<LF>>, i.sdOk, i.scaleReady, SettleUntil)
    \/ LoopEnd(Sensors, TRUE, SettleUntil)
    \/ Tick(solarVoltage, SessionUntil)

SpecLogging == ConfigStart /\ [][NextLogging]_vars

(* Fetching files by name in FileBrowsing, after a session with a long label  *)
\* the names asked for: one that no session produces, and the name that a
\* session with the long label is meant to have
RequestedNames == {MissingTxt, SessionFileName(LongLabel, Date1, Time1)}

DownloadInputs ==
    Answered({kDOWNLOAD_FILE, kBACK, kSTOP,
              NewDryingCmd(LongLabel, Date1, Time1)}
                 \cup {GetFileCmd(n) : n \in RequestedNames})

NextDownload ==
    \/ LoopBegin
    \/ \E i \in DownloadInputs :
         Receive(i.cmd \o <<LF>>, i.sdOk, i.scaleReady, SettleUntil)
    \/ LoopEnd(Sensors, TRUE, SettleUntil)
    \/ Tick(solarVoltage, SessionUntil)

SpecDownload == ConfigStart /\ [][NextDownload]_vars

(* Fetching the files that earlier sessions have left on the card             *)
\* the time by which a transfer of the longest file has ended
TransferUntil == SettleUntil + (LongFileRows + 1) * LineDelayMs

\* the names asked for
FetchedNames ==
    {SessionFileName(l, Date1, Time1) : l \in {Fig, Plum}}
        \cup {MissingTxt}

TransferInputs ==
    Answered({kDOWNLOAD_FILE, kBACK} \cup {GetFileCmd(n) : n \in FetchedNames})
        \cup {Input(kDOWNLOAD_FILE, FALSE, TRUE)}

\* commands arrive in the first seconds after boot; a transfer that has
\* begun runs to its end
NextTransfer ==
    \/ LoopBegin
    \/ /\ now <= SettleUntil
       /\ \E i \in TransferInputs :
            Receive(i.cmd \o <<LF>>, i.sdOk, i.scaleReady, TransferUntil)
    \/ LoopEnd(Sensors, TRUE, TransferUntil)

\* the defaults are in the EEPROM and the files of two earlier sessions on
\* the card
TransferStart ==
    /\ Init
    /\ sdFiles = EarlierFiles
    /\ eepromConfig = DefaultConfig
    /\ eepromFilename = <<>>
    /\ solarVoltage = 90
    /\ \A x \in Sensors : dhtAvailable[x]

SpecTransfer == TransferStart /\ [][NextTransfer]_vars

(* What is sent without being asked for: the readiness alert and the         *)
(* telemetry, over the time that both intervals take to elapse                *)
TelemetryInputs ==
    Answered({kSTART, kSTOP, kDOWNLOAD_FILE, kBACK,
              NewDryingCmd(Mango, Date1, Time1)})

NextTelemetry ==
    \/ LoopBegin
    \/ \E i \in TelemetryInputs :
         Receive(i.cmd \o <<LF>>, i.sdOk, i.scaleReady, MaxTime)
    \/ LoopEnd(Sensors, TRUE, MaxTime)
    \/ Tick(solarVoltage, MaxTime)

SpecTelemetry == ConfigStart /\ [][NextTelemetry]_vars

(* Sensors that fail and answer again during a session in which the         *)
(* re-initialization interval has been set to three seconds                   *)
ShortReinit == SetCmd(kREINIT_INT, <<"3","0","0","0">>)

SensorInputs ==
    Answered({ShortReinit, kSTART, NewDryingCmd(Mango, Date1, Time1)})

NextSensors ==
    \/ LoopBegin
    \/ \E i \in SensorInputs :
         Receive(i.cmd \o <<LF>>, i.sdOk, i.scaleReady, MaxTime)
    \/ \E r \in SensorOutcomes : LoopEnd(r, TRUE, MaxTime)
    \/ Tick(solarVoltage, MaxTime)

SpecSensors == ConfigStart /\ [][NextSensors]_vars

(* Sessions that begin shortly before the end of a day, a month or a year    *)
(* and log for up to a month                                                  *)
\* the reference dates and times: the last second of 2023, of 28 February in
\* a leap year and in another year, noon of 31 January, and a 31 April that
\* parseInitialDateTime accepts
References ==
    { << <<"3","1","1","2","2","0","2","3">>, <<"2","3","5","9","5","9">> >>,
      << <<"2","8","0","2","2","0","2","4">>, <<"2","3","5","9","5","9">> >>,
      << <<"2","8","0","2","2","0","2","3">>, <<"2","3","5","9","5","9">> >>,
      << <<"3","1","0","1","2","0","2","3">>, <<"1","2","0","0","0","0">> >>,
      << <<"3","1","0","4","2","0","2","4">>, <<"0","0","0","0","0","0">> >> }

\* fifteen days, and the time up to which two such naps are followed
HalfMonthMs == 15 * 86400 * 1000
CalendarUntil == Add32(Add32(SettleUntil, HalfMonthMs), HalfMonthMs)

CalendarInputs ==
    Answered({kSTART} \cup {NewDryingCmd(Mango, r[1], r[2]) : r \in References})

\* the session is created and started in the first seconds after boot
NextCalendar ==
    \/ LoopBegin
    \/ /\ now = BootMs
       /\ \E i \in CalendarInputs :
            Receive(i.cmd \o <<LF>>, i.sdOk, i.scaleReady, CalendarUntil)
    \/ LoopEnd(Sensors, TRUE, CalendarUntil)
    \/ Tick(solarVoltage, SessionUntil)
    \/ Sleep(HalfMonthMs, CalendarUntil)

SpecCalendar == ConfigStart /\ [][NextCalendar]_vars

(* A session that is created, started, stopped and continued, and whose file *)
(* is fetched afterwards; time passes in the delays of the handlers           *)
MangoFile == SessionFileName(Mango, Date1, Time1)

\* the commands that begin or continue a session
RoundTripInputs ==
    Answered({NewDryingCmd(Mango, Date1, Time1), kSTART,
              ContinuedDryingCmd(Date1, Time1)})

\* the commands that end a session and fetch its file
FetchInputs == Answered({kSTOP, kDOWNLOAD_FILE, GetFileCmd(MangoFile)})

\* the time by which a second session that was begun by SettleUntil has been
\* stopped and its file has been sent
RoundTripUntil ==
    SettleUntil + StopDelayMs + ResetSettleMs + (MaxRows + 1) * LineDelayMs

NextRoundTrip ==
    \/ LoopBegin
    \/ \E i \in RoundTripInputs :
         Receive(i.cmd \o <<LF>>, i.sdOk, i.scaleReady, SettleUntil)
    \/ \E i \in FetchInputs :
         Receive(i.cmd \o <<LF>>, i.sdOk, i.scaleReady, RoundTripUntil)
    \/ LoopEnd(Sensors, TRUE, RoundTripUntil)

SpecRoundTrip == ConfigStart /\ [][NextRoundTrip]_vars

(* Command lines that are not well formed, in each of the three states       *)
\* a date whose day is 32
BadDate == <<"3","2","0","1","2","0","2","4">>

\* SET: with a key and no value
SetWithoutValue == kSET \o kCALIB

\* a word that is no command, a SET without a value, NEW_DRYING without a
\* date and with a date that is none, CONTINUED_DRYING with such a date
Malformed ==
    {Hello, SetWithoutValue, kNEW_DRYING \o Mango,
     NewDryingCmd(Mango, BadDate, Time1), ContinuedDryingCmd(BadDate, Time1)}

MalformedInputs ==
    Answered(Malformed \cup {NewDryingCmd(Mango, Date1, Time1), kSTART,
                             kDOWNLOAD_FILE, kBACK})

NextMalformed ==
    \/ LoopBegin
    \/ \E i \in MalformedInputs :
         Receive(i.cmd \o <<LF>>, i.sdOk, i.scaleReady, SettleUntil)
    \/ LoopEnd(Sensors, TRUE, SettleUntil)
    \/ Tick(solarVoltage, SessionUntil)

SpecMalformed == ConfigStart /\ [][NextMalformed]_vars

(* Sessions under two labels that are stopped, reset and continued, on a     *)
(* device whose power may be cycled and whose card may fail                   *)
PersistInputs ==
    Answered({kSTOP, kRESET_SYSTEM, ContinuedDryingCmd(Date1, Time1)}
                 \cup {NewDryingCmd(l, Date1, Time1) : l \in Labels})
        \cup {Input(c, FALSE, TRUE) :
                 c \in {ContinuedDryingCmd(Date1, Time1),
                        NewDryingCmd(Mango, Date1, Time1)}}

\* the time by which a session that is stopped at boot has been reset
PersistUntil == BootMs + StopDelayMs + ResetSettleMs

\* the sensors answer at every boot
NextPersist ==
    \/ LoopBegin
    \/ \E i \in PersistInputs :
         Receive(i.cmd \o <<LF>>, i.sdOk, i.scaleReady, PersistUntil)
    \/ LoopEnd(Sensors, TRUE, PersistUntil)
    \/ Reboot /\ \A x \in Sensors : dhtAvailable'[x]

SpecPersist == ConfigStart /\ [][NextPersist]_vars

(* Dates and times that are out of range or of the wrong length, in          *)
(* NEW_DRYING and in CONTINUED_DRYING                                         *)
\* a date of seven characters and a time of seven
ShortDate == <<"3","1","0","1","2","0","2">>
LongTime == <<"4","1","2","0","0","0","0">>

\* pairs of a date and a time: day 32, month 13, hour 24, minute 60, second
\* 60, a date of seven characters with a time of six, and one of seven with
\* a time of seven
BadDateTimes ==
    { <<BadDate, Time1>>,
      <<<<"0","1","1","3","2","0","2","4">>, Time1>>,
      <<Date1, <<"2","4","0","0","0","0">>>>,
      <<Date1, <<"0","8","6","0","0","0">>>>,
      <<Date1, <<"0","8","0","0","6","0">>>>,
      <<ShortDate, Time1>>,
      <<ShortDate, LongTime>> }

\* the commands that carry them
BadDateCommands ==
    {NewDryingCmd(Mango, p[1], p[2]) : p \in BadDateTimes}
        \cup {ContinuedDryingCmd(p[1], p[2]) : p \in BadDateTimes}

DateInputs ==
    Answered(BadDateCommands \cup {NewDryingCmd(Mango, Date1, Time1), kSTOP})

NextDates ==
    \/ LoopBegin
    \/ \E i \in DateInputs :
         Receive(i.cmd \o <<LF>>, i.sdOk, i.scaleReady, PersistUntil)
    \/ LoopEnd(Sensors, TRUE, PersistUntil)

SpecDates == ConfigStart /\ [][NextDates]_vars

(* Configuration records of every kind in the EEPROM, SET commands that     *)
(* move fields out of their ranges, SAVECONFIG and power cycles               *)
\* SET commands: a low threshold above the default high one, and values that
\* lie outside the ranges of loadConfig
TuningSets ==
    { [key |-> kSOLAR_LOW, text |-> <<"2","0">>,
       field |-> "solar_threshold_low", value |-> 200],
      [key |-> kDWELL_TIME, text |-> <<"0">>,
       field |-> "min_dwell_time", value |-> 0],
      [key |-> kBT_INT, text |-> <<"6","0","0","0","0">>,
       field |-> "bluetooth_interval", value |-> 60000],
      [key |-> kSD_LOG_INT, text |-> <<"3","0","0","0">>,
       field |-> "sd_log_interval", value |-> 3000] }

TuningInputs ==
    Answered({kSAVECONFIG} \cup {SetCmd(x.key, x.text) : x \in TuningSets})

\* the sensors answer at every boot
NextTuning ==
    \/ LoopBegin
    \/ \E i \in TuningInputs :
         Receive(i.cmd \o <<LF>>, i.sdOk, i.scaleReady, BootMs)
    \/ LoopEnd(Sensors, TRUE, BootMs)
    \/ Reboot /\ \A x \in Sensors : dhtAvailable'[x]

\* any of the records is in the EEPROM at power-on
TuningStart ==
    /\ Init
    /\ sdFiles = NoFiles
    /\ eepromFilename = <<>>
    /\ solarVoltage = 90
    /\ \A x \in Sensors : dhtAvailable[x]

SpecTuning == TuningStart /\ [][NextTuning]_vars

(* ------------------------------------------------------------------------ *)
(* Properties                                                                 *)
(* ------------------------------------------------------------------------ *)
\* between two passes of loop()
BetweenPasses == pc = "loop"

SessionOnly == {kSTART, kSTOP, kT}

\* the answer to a command that the state does not know
UnknownCommand(state) ==
    IF state = WAITING_FOR_COMMAND
    THEN Line("ERROR:UNKNOWN_COMMAND_WAITING_STATE")
    ELSE IF state = LOGGING_DATA
    THEN Line("ERROR:UNKNOWN_COMMAND_LOGGING_STATE")
    ELSE Line("ERROR:UNKNOWN_COMMAND_DOWNLOADING_STATE")

\* C2: START, STOP or T received while Idle or FileBrowsing is answered with
\* exactly ERROR:UNKNOWN_COMMAND_<STATE> of that state, and the controller
\* state, the is-logging flag, the file handle, the session fields, the
\* configuration, the relay and the persistent storage stay as they were.
C2_SessionOnlyRejected ==
    [][ (/\ currentState \in {WAITING_FOR_COMMAND, DOWNLOADING_FILE}
         /\ \E c \in SessionOnly : rxBytes' = c \o <<LF>>)
        => /\ btOut' = <<UnknownCommand(currentState)>>
           /\ UNCHANGED progVars ]_vars

\* STOP has just been refused while FileBrowsing
C2_StopRefusedBrowsing ==
    /\ currentState = DOWNLOADING_FILE
    /\ rxBytes = kSTOP \o <<LF>>
    /\ lastCmd = <<kSTOP>>
    /\ btOut = <<UnknownCommand(DOWNLOADING_FILE)>>

\* the lines of an output
Lines(out) == {out[i] : i \in 1..Len(out)}

\* C3: NEW_DRYING:<label>:<DDMMYYYY>:<HHMMSS> received while Idle, with the
\* card taking the file, answers OK:NEW_SESSION_CREATED:<label>_<DDMMYYYY>_
\* <HHMMSS>.txt with the spaces of the label replaced by '_' and leaves the
\* controller in Logging with the is-logging flag clear; a START received in
\* that state answers STATUS:LOGGING_STARTED and sets the is-logging flag.
C3_NewSessionNamed ==
    [][ /\ \A l \in Labels :
             (/\ currentState = WAITING_FOR_COMMAND
              /\ rxBytes' = NewDryingCmd(l, Date1, Time1) \o <<LF>>
              /\ Line("ERROR:FILE_CREATION_FAILED") \notin Lines(btOut'))
             => /\ LineText("OK:NEW_SESSION_CREATED:",
                            SessionFileName(l, Date1, Time1)) \in Lines(btOut')
                /\ currentState' = LOGGING_DATA
                /\ ~isLogging'
        /\ (/\ currentState = LOGGING_DATA
            /\ fileOpen
            /\ ~isLogging
            /\ rxBytes' = kSTART \o <<LF>>)
           => /\ btOut' = <<Line("STATUS:LOGGING_STARTED")>>
              /\ isLogging' ]_vars

\* C4: the relay goes from grid to solar only when the voltage has been at or
\* above solar_threshold_high without interruption for at least
\* min_dwell_time up to the switch, and from solar to grid only when it has
\* been below solar_threshold_low for as long, across sessions, resets and
\* idle periods.
C4_SwitchAfterDwell ==
    [][ /\ (relay = AC_POWER_ACTIVE /\ relay' = SOLAR_POWER_ACTIVE)
           => HighSince(config.solar_threshold_high,
                        now - config.min_dwell_time)
        /\ (relay = SOLAR_POWER_ACTIVE /\ relay' = AC_POWER_ACTIVE)
           => LowSince(config.solar_threshold_low,
                       now - config.min_dwell_time) ]_vars

\* the dwell timers
Timers == <<solarGoodStartTime, solarBadStartTime>>

\* C5: an evaluation of the power arbitration with a voltage between the
\* thresholds, with a voltage below the low threshold while the good timer
\* runs, or with a voltage at or above the high threshold while the bad timer
\* runs, leaves both dwell timers at zero.
C5_InterruptionClearsTimers ==
    [][ (/\ evalCount' = 1
         /\ \/ /\ solarVoltage >= config.solar_threshold_low
               /\ solarVoltage < config.solar_threshold_high
            \/ /\ solarGoodStartTime # 0
               /\ solarVoltage < config.solar_threshold_low
            \/ /\ solarBadStartTime # 0
               /\ solarVoltage >= config.solar_threshold_high)
        => /\ solarGoodStartTime' = 0
           /\ solarBadStartTime' = 0 ]_vars

\* C6: in a run of evaluations at or above solar_threshold_high that began on
\* grid power, the relay changes at most once, and once an evaluation of the
\* run has come min_dwell_time or more after its first, the relay has changed
\* exactly once and is on solar.
C6_OneSwitchToSolar ==
    holdActive =>
        /\ holdSwitches <= 1
        /\ holdDue => holdSwitches = 1 /\ relay = SOLAR_POWER_ACTIVE

\* a run that has switched to solar and has been evaluated again since
C6_SwitchedAndHeld ==
    /\ holdActive
    /\ holdDue
    /\ holdSwitches = 1
    /\ evalCount = 1
    /\ relay = SOLAR_POWER_ACTIVE
    /\ now >= holdStart + 2 * config.min_dwell_time

\* the notices of a switch among the lines of an output
SwitchNotices(out) ==
    Lines(out) \cap {Line("Switched to SOLAR"), Line("Switched to AC")}

\* C7: a change of the relay puts the notice of that switch on the link if and
\* only if the is-logging flag is set at that moment, and no notice is put on
\* the link without a change of the relay.
C7_NoticeIffLogging ==
    [][ /\ relay' # relay =>
             SwitchNotices(btOut') =
                 IF ~isLogging THEN {}
                 ELSE IF relay' = SOLAR_POWER_ACTIVE
                 THEN {Line("Switched to SOLAR")}
                 ELSE {Line("Switched to AC")}
        /\ relay' = relay => SwitchNotices(btOut') = {} ]_vars

\* the relay has just gone back to grid power in a logging session
C7_NoticedSwitchToGrid ==
    /\ isLogging
    /\ relay = AC_POWER_ACTIVE
    /\ Line("Switched to AC") \in Lines(btOut)

\* what power arbitration and sensor polling change
Polled == <<relay, solarGoodStartTime, solarBadStartTime, dhtAvailable>>

C9_OverlongNotDispatched ==
    [][ rxBytes' = OverlongLine \o <<LF>>
        => /\ Line("ERROR:Command too long") \in Lines(btOut')
           /\ lastCmd' = <<>> ]_vars

\* C10: GETCONFIG, SET:<KEY>:<value> and SAVECONFIG are accepted in every
\* controller state and take effect there; none of them is answered with
\* ERROR:UNKNOWN_COMMAND_<STATE>.
C10_ConfigInEveryState ==
    [][ /\ \A c \in ConfigCommands :
             rxBytes' = c \o <<LF>>
             => UnknownCommand(currentState) \notin Lines(btOut')
        /\ rxBytes' = kGETCONFIG \o <<LF>>
           => Line("CONFIG:START") \in Lines(btOut')
        /\ rxBytes' = kSAVECONFIG \o <<LF>> => eepromConfig' = config
        /\ rxBytes' = SetCmd(kSOLAR_HIGH, <<"3">>) \o <<LF>>
           => config'.solar_threshold_high = 30 ]_vars

\* a command line read from the link by the step
Got(command) == rxBytes' = command \o <<LF>>

\* the lines of a configuration dump that shows the values of c
ConfigDump(c) ==
    << Line("CONFIG:START"),
       LineNum("CONFIG:CALIB:", c.calibration_factor),
       LineNum("CONFIG:SOLAR_LOW:", c.solar_threshold_low),
       LineNum("CONFIG:SOLAR_HIGH:", c.solar_threshold_high),
       LineNum("CONFIG:DWELL_TIME:", c.min_dwell_time),
       LineNum("CONFIG:REINIT_INT:", c.reinit_interval),
       LineNum("CONFIG:SD_LOG_INT:", c.sd_log_interval),
       LineNum("CONFIG:DISPLAY_INT:", c.display_interval),
       LineNum("CONFIG:BT_INT:", c.bluetooth_interval),
       Line("CONFIG:END") >>

\* C11: after any sequence of SET commands GETCONFIG dumps, for each field,
\* the value of the last SET with the key of that field. Step by step: a SET
\* with a known key puts its value in the field of that key and leaves the
\* other fields alone, a SET with an unknown key and every other command
\* leave all fields alone, and a dump shows the fields as they are.
C11_DumpReflectsLastSet ==
    [][ /\ \A x \in KnownSets :
             Got(SetCmd(x.key, x.text))
             => config' = [config EXCEPT ![x.field] = x.value]
        /\ Got(UnknownSet) => config' = config
        /\ (rxBytes' # <<>> /\ config' # config)
           => \E x \in KnownSets : Got(SetCmd(x.key, x.text))
        /\ Line("CONFIG:START") \in Lines(btOut')
           => btOut' = ConfigDump(config) ]_vars

\* C12: a SET with a key that is not a configuration key is reported as
\* such: it is answered, and not with OK:SETTING_UPDATED.
C12_UnknownKeyReported ==
    [][ Got(UnknownSet)
        => /\ btOut' # <<>>
           /\ Line("OK:SETTING_UPDATED") \notin Lines(btOut') ]_vars

\* the fields of the configuration
ConfigFields == DOMAIN DefaultConfig

\* the sane range of each field: the value v of field f is acceptable beside
\* the low threshold `low` that is in effect
InSaneRange(f, v, low) ==
    IF f = "calibration_factor" THEN v > 0 /\ v < 200000
    ELSE IF f = "solar_threshold_low" THEN v >= 0 /\ v < 500
    ELSE IF f = "solar_threshold_high" THEN v > low /\ v < 500
    ELSE IF f = "min_dwell_time" THEN v > 0 /\ v < 600000
    ELSE IF f \in {"reinit_interval", "sd_log_interval"}
    THEN v > 0 /\ v < 3600000
    ELSE v > 0 /\ v < 60000

\* C13: at boot every field of the configuration is the stored value when
\* that value lies within the sane range of the field and the compiled-in
\* default when it does not, whatever became of the other fields.
C13_LoadFieldByField ==
    [][ Reboot
        => \A f \in ConfigFields :
             config'[f] = IF InSaneRange(f, eepromConfig[f],
                                         config'.solar_threshold_low)
                          THEN eepromConfig[f]
                          ELSE DefaultConfig[f] ]_vars

\* C14: the Config record in the EEPROM changes only in a step that handles
\* SAVECONFIG; SET, GETCONFIG and every other command leave it as it is, and
\* a power cycle brings back what it holds: each field is the stored value or,
\* failing that, the default, and a record of sane values comes back whole.
C14_SavedOnlyOnSave ==
    [][ /\ eepromConfig' # eepromConfig
           => Got(kSAVECONFIG) /\ eepromConfig' = config
        /\ Reboot
           => /\ \A f \in ConfigFields :
                   config'[f] \in {eepromConfig[f], DefaultConfig[f]}
              /\ (\A f \in ConfigFields :
                     InSaneRange(f, eepromConfig[f],
                                 eepromConfig.solar_threshold_low))
                 => config' = eepromConfig ]_vars

\* a SET has been answered and its value is in memory only
C14_SetNotSaved ==
    /\ btOut = <<Line("OK:SETTING_UPDATED")>>
    /\ config.min_dwell_time = 1000
    /\ eepromConfig = DefaultConfig

\* the file-name record of the EEPROM has never been written: it holds what
\* it held when the device was first switched on
NeverWritten == eepromFilename \in {<<>>, ErasedFilename}

\* C15: while no NEW_DRYING or CONTINUED_DRYING has ever succeeded, a
\* CONTINUED_DRYING with a valid date and time fails with ERROR:No previous
\* file found in EEPROM, in whatever state the controller is.
C15_NoPriorSession ==
    [][ (NeverWritten /\ Got(ContinuedDryingCmd(Date1, Time1)))
        => Line("ERROR:No previous file found in EEPROM") \in Lines(btOut')
      ]_vars

\* the reference date and time of the commands, as written in a marker row
DateTime1 == Date1 \o <<"_">> \o Time1

\* the row that marks the continuation of a session at that date and time
Marker1 == [k |-> "marker", a |-> DateTime1, ms |-> 0, solar |-> FALSE]

\* C16: CONTINUED_DRYING with a valid date and time, received while Idle when
\* the file named in the EEPROM is on the card and can be opened, appends one
\* marker row with the new reference date and time to that file, answers
\* OK:CONTINUED_SESSION:<name> and then STATUS:LOGGING_STARTED, and leaves
\* the controller in Logging with the file open and the is-logging flag set.
C16_ContinuedSessionLogs ==
    [][ ( /\ Got(ContinuedDryingCmd(Date1, Time1))
          /\ currentState = WAITING_FOR_COMMAND
          /\ eepromFilename \in DOMAIN sdFiles
          /\ Line("ERROR:Could not open file for appending")
                \notin Lines(btOut') )
        => /\ btOut' = << LineText("OK:CONTINUED_SESSION:", eepromFilename),
                          Line("STATUS:LOGGING_STARTED") >>
           /\ sdFiles' = [sdFiles EXCEPT ![eepromFilename] =
                             Append(@, Marker1)]
           /\ currentState' = LOGGING_DATA
           /\ isLogging'
           /\ fileOpen'
           /\ currentFileNameBuffer' = eepromFilename ]_vars

\* a session has been continued: the answers are out and the marker row is
\* the last row of the file
C16_Continued ==
    /\ btOut = << LineText("OK:CONTINUED_SESSION:", eepromFilename),
                  Line("STATUS:LOGGING_STARTED") >>
    /\ isLogging
    /\ sdFiles[eepromFilename] = <<HeaderRow, Marker1>>

\* the commands that open a session
SessionCommands ==
    {ContinuedDryingCmd(Date1, Time1)}
        \cup {NewDryingCmd(l, Date1, Time1) : l \in Labels}

\* the lines that report a session error
SessionErrors ==
    { Line("ERROR:FILE_CREATION_FAILED"),
      Line("ERROR:Failed to setup new drying session."),
      Line("ERROR:No previous file found in EEPROM"),
      Line("ERROR:File not found"),
      Line("ERROR:Could not open file for appending") }

\* the lines that report a session opened
SessionOpened(out) ==
    \E i \in 1..Len(out) :
        out[i].t \in {"OK:NEW_SESSION_CREATED:", "OK:CONTINUED_SESSION:"}

\* C17: a command that opens a session, received while Idle, either opens it
\* (the controller is in Logging with the handle open on a file of the card)
\* or reports a session error on a line ERROR:..., and a command that reports
\* one ends with the controller Idle, the is-logging flag clear and no file
\* handle open.
C17_SessionErrorResets ==
    [][ \A c \in SessionCommands :
          (Got(c) /\ currentState = WAITING_FOR_COMMAND)
          => \/ /\ SessionOpened(btOut')
                /\ Lines(btOut') \cap SessionErrors = {}
                /\ currentState' = LOGGING_DATA
                /\ fileOpen'
                /\ currentFileNameBuffer' \in DOMAIN sdFiles'
             \/ /\ ~SessionOpened(btOut')
                /\ Lines(btOut') \cap SessionErrors # {}
                /\ currentState' = WAITING_FOR_COMMAND
                /\ ~isLogging'
                /\ ~fileOpen' ]_vars

\* a NEW_DRYING has failed at the card and the controller is Idle again
C17_CreationFailed ==
    /\ Line("ERROR:FILE_CREATION_FAILED") \in Lines(btOut)
    /\ currentState = WAITING_FOR_COMMAND
    /\ ~fileOpen

\* the state and the answers after the line `command` is received in the
\* present state
After(command) ==
    LET s == processBluetoothCommands([Cur EXCEPT !.btCmdBuffer = <<>>],
                                      command \o <<LF>>, TRUE, TRUE)
    IN  [currentState |-> s.currentState, isLogging |-> s.isLogging,
         fileOpen |-> s.fileOpen, out |-> s.out]

\* Idle with no session, announced by the lines of a soft reset; stopped: the
\* command was received in Logging
ResetTo(stopped) ==
    [currentState |-> WAITING_FOR_COMMAND, isLogging |-> FALSE,
     fileOpen |-> FALSE,
     out |-> (IF stopped THEN <<Line("STATUS:LOGGING_STOPPED")>> ELSE <<>>)
             \o << Line("STATUS:SYSTEM_RESET"),
                   Line("ALERT:SYSTEM_READY"),
                   Line("OPTIONS:NEW_DRYING,CONTINUED_DRYING,DOWNLOAD_FILE") >>]

\* C18: in every reachable state RESET_SYSTEM, and STOP in Logging, and BACK
\* in FileBrowsing, end with the controller Idle, the is-logging flag clear
\* and the file closed, after STATUS:SYSTEM_RESET, ALERT:SYSTEM_READY and the
\* options line, preceded by STATUS:LOGGING_STOPPED when the controller was
\* in Logging; so Idle can be reached again from every state.
C18_ResetReturnsIdle ==
    /\ After(kRESET_SYSTEM) = ResetTo(currentState = LOGGING_DATA)
    /\ currentState = LOGGING_DATA => After(kSTOP) = ResetTo(TRUE)
    /\ currentState = DOWNLOADING_FILE => After(kBACK) = ResetTo(FALSE)

\* a logging session has been stopped by STOP
C18_StoppedByStop ==
    /\ rxBytes = kSTOP \o <<LF>>
    /\ btOut = ResetTo(TRUE).out
    /\ currentState = WAITING_FOR_COMMAND
    /\ ~fileOpen

\* the step is the rest of a pass, after the commands have been handled
PassEnds == pc = "drain" /\ pc' = "loop"

\* the pass falls on a tick of the log interval
LogDue ==
    /\ currentState = LOGGING_DATA
    /\ AtLeast32(Sub32(currentMillis, lastLogTime), config.sd_log_interval)

\* the step appends one row to the session file and writes nothing else
OneRowAppended ==
    /\ currentFileNameBuffer \in DOMAIN sdFiles
    /\ currentFileNameBuffer \in DOMAIN sdFiles'
    /\ LET rows == sdFiles'[currentFileNameBuffer]
           row == rows[Len(rows)]
       IN  /\ rows # <<>>
           /\ row.k = "data"
           /\ row.ms = Sub32(currentMillis, sessionStartMillis)
           /\ sdFiles' = [sdFiles EXCEPT
                            ![currentFileNameBuffer] = Append(@, row)]

\* C19: on a tick of the log interval, with a card that takes the write, one
\* row is appended to the session file if and only if the is-logging flag is
\* set and the file handle is open, whatever an earlier command that failed
\* has left behind; otherwise the pass writes nothing.
C19_RowIffLogging ==
    [][ PassEnds
        => /\ LogDue => ((isLogging /\ fileOpen) <=> OneRowAppended)
           /\ ~OneRowAppended => sdFiles' = sdFiles ]_vars

\* C20: GET_FILE:<name> received in FileBrowsing for a name that is not on
\* the card is answered with the one line ERROR:File not found, and with no
\* FILE_CONTENT_START, content, PROGRESS or FILE_CONTENT_END line.
C20_MissingFileOneError ==
    [][ \A n \in RequestedNames :
          ( /\ Got(GetFileCmd(n))
            /\ currentState = DOWNLOADING_FILE
            /\ n \notin DOMAIN sdFiles )
          => btOut' = <<Line("ERROR:File not found")>> ]_vars

\* the lines of a transfer of the rows `rows` under the name `name`, where
\* the numbers of the PROGRESS lines between the rows are left open
InTransferOrder(out, name, rows) ==
    LET k == Len(rows)
        body == k + k \div 10
    IN  /\ Len(out) = body + 3
        /\ out[1] = LineText("FILE_CONTENT_START:", name)
        /\ \A p \in 1..body :
              IF (p - 1) % 11 = 10
              THEN out[p + 1].t = "PROGRESS:"
              ELSE out[p + 1] = RowLine(rows[10 * ((p - 1) \div 11)
                                                + ((p - 1) % 11) + 1])
        /\ out[body + 2] = LineNum("PROGRESS:", 100)
        /\ out[body + 3] = Line("FILE_CONTENT_END")
        /\ \A p \in 1..(body + 2) : out[p] # Line("FILE_CONTENT_END")

\* the step handles GET_FILE for a file that is on the card
Fetched(n) ==
    /\ Got(GetFileCmd(n))
    /\ currentState = DOWNLOADING_FILE
    /\ n \in DOMAIN sdFiles

C22_ProgressInRange ==
    \A i \in 1..Len(btOut) :
        btOut[i].t = "PROGRESS:" => btOut[i].n \in 0..100

\* the answer to DOWNLOAD_FILE when the root of the card is enumerated
Listing(files) ==
    <<Line("FILES_LIST_START")>> \o FileLines(DirOrder(DOMAIN files))
        \o <<Line("FILES_LIST_END")>>

\* the step handles DOWNLOAD_FILE in Idle and the root is not enumerated
RootNotEnumerated ==
    /\ Got(kDOWNLOAD_FILE)
    /\ currentState = WAITING_FOR_COMMAND
    /\ btOut' # Listing(sdFiles)

\* C23: when DOWNLOAD_FILE cannot open the root of the card to enumerate it,
\* an ERROR: line is sent and the controller is Idle afterwards, not in
\* FileBrowsing.
C23_NoListingReturnsIdle ==
    [][ RootNotEnumerated
        => /\ \E i \in 1..Len(btOut') :
                 btOut'[i] = Line("ERROR:Could not open SD root")
           /\ currentState' = WAITING_FOR_COMMAND ]_vars

\* C24: DOWNLOAD_FILE received in Idle takes the controller to FileBrowsing
\* and sends FILES_LIST_START, a FILE:<name> line for every file that is in
\* the root of the card at that time, and FILES_LIST_END; after every
\* GET_FILE that follows, successful or not, the controller is still in
\* FileBrowsing.
C24_ListedThenBrowsing ==
    [][ /\ (Got(kDOWNLOAD_FILE) /\ currentState = WAITING_FOR_COMMAND)
            => /\ currentState' = DOWNLOADING_FILE
               /\ btOut' = Listing(sdFiles)
        /\ \A n \in RequestedNames :
              (Got(GetFileCmd(n)) /\ currentState = DOWNLOADING_FILE)
                  => currentState' = DOWNLOADING_FILE ]_vars

\* the file of a session has been listed
C24_SessionFileListed ==
    /\ rxBytes = kDOWNLOAD_FILE \o <<LF>>
    /\ currentState = DOWNLOADING_FILE
    /\ btOut = << Line("FILES_LIST_START"),
                  LineText("FILE:", FormatFileName(LongLabel,
                                                   Date1 \o <<"_">> \o Time1)),
                  Line("FILES_LIST_END") >>

\* the lines of the telemetry and of the readiness alert
TelemetryTags ==
    {"DATA_UPDATE", "IN:", "MID:", "OUT:", "WEIGHT:", "SOLAR:", "POWER:"}
AlertTags ==
    {"ALERT:SYSTEM_READY", "OPTIONS:NEW_DRYING,CONTINUED_DRYING,DOWNLOAD_FILE"}

\* the lines of `out` with a tag in `tags`
Tagged(out, tags) == {i \in 1..Len(out) : out[i].t \in tags}

\* a session that was created and not started
CreatedNotStarted == currentState = LOGGING_DATA /\ ~isLogging

\* C25: telemetry lines are sent only while the is-logging flag is set, and
\* ALERT:SYSTEM_READY with its options line only while the controller is
\* Idle; neither is sent in FileBrowsing or in a session that was created
\* and not started.
C25_UnsolicitedLinesGuarded ==
    [][ /\ Tagged(btOut', TelemetryTags) # {} => isLogging /\ isLogging'
        /\ Tagged(btOut', AlertTags) # {}
              => /\ currentState' = WAITING_FOR_COMMAND
                 /\ Len(btOut') >= 2
                 /\ btOut'[Len(btOut') - 1] = Line("ALERT:SYSTEM_READY")
                 /\ Tagged(btOut', AlertTags) = {Len(btOut') - 1, Len(btOut')}
        /\ (currentState' = DOWNLOADING_FILE \/ CreatedNotStarted')
              => Tagged(btOut', TelemetryTags \cup AlertTags) = {} ]_vars

\* telemetry has been sent in a pass of a logging session
C25_TelemetrySent ==
    /\ isLogging
    /\ rxBytes = <<>>
    /\ Tagged(btOut, TelemetryTags) = 1..7

\* the telemetry line that reports a sensor
SensorTag(x) ==
    IF x = "Inside" THEN "IN:" ELSE IF x = "Middle" THEN "MID:" ELSE "OUT:"

\* the re-initialization of the sensors is due in this pass
ReinitDue ==
    /\ currentState = LOGGING_DATA
    /\ AtLeast32(Sub32(currentMillis, lastReinitAttempt),
                 config.reinit_interval)

\* C26: a sensor read that fails changes neither the controller state nor
\* the is-logging flag; the sensor is marked unavailable, is reported as -99
\* from then on without being marked available by a read, and becomes
\* available again only in a pass made in Logging in which the
\* re-initialization interval has elapsed.
C26_SensorFailureContained ==
    [][ \A x \in Sensors :
          /\ (dhtAvailable[x] /\ ~dhtAvailable'[x])
                => /\ PassEnds
                   /\ currentState' = currentState
                   /\ isLogging' = isLogging
          /\ (~dhtAvailable[x] /\ dhtAvailable'[x]) => PassEnds /\ ReinitDue
          /\ ~dhtAvailable'[x]
                => \A i \in Tagged(btOut', {SensorTag(x)}) : btOut'[i].n = -99
      ]_vars

\* a sensor that failed is reported as -99 in the telemetry of a session
C26_SentinelReported ==
    /\ isLogging
    /\ ~dhtAvailable["Inside"]
    /\ \E i \in Tagged(btOut, {"IN:"}) : btOut[i].n = -99

\* the simplified calendar: the lengths of the months of a year
MonthLengths(year) ==
    <<31, IF year % 4 = 0 THEN 29 ELSE 28, 31, 30, 31, 30, 31, 31, 30, 31, 30,
      31>>

\* the seconds from the beginning of the year `base` to the date and time
\* dt of that year or the next
RECURSIVE DaysBefore(_, _)
DaysBefore(month, year) ==
    IF month = 1 THEN 0
    ELSE DaysBefore(month - 1, year) + MonthLengths(year)[month - 1]

SecondsFrom(base, dt) ==
    ((IF dt.year = base THEN 0 ELSE DaysBefore(12, base) + 31)
         + DaysBefore(dt.month, dt.year) + dt.day - 1) * 86400
      + dt.hour * 3600 + dt.minute * 60 + dt.second

WellFormed(dt) ==
    /\ dt.second \in 0..59
    /\ dt.minute \in 0..59
    /\ dt.hour \in 0..23
    /\ dt.month \in 1..12
    /\ dt.day \in 1..MonthLengths(dt.year)[dt.month]

\* the date and time that a time stamp shows
Shown(at) ==
    [year |-> at[1], month |-> at[2], day |-> at[3], hour |-> at[4],
     minute |-> at[5], second |-> at[6]]

\* the row that the step has appended to the session file
LastRow == sdFiles'[currentFileNameBuffer][Len(sdFiles'[currentFileNameBuffer])]

ContentLines(out) ==
    LET IsContent(l) ==
            l.t \notin {"FILE_CONTENT_START:", "PROGRESS:", "FILE_CONTENT_END"}
    IN  SelectSeq(out, IsContent)

\* the rows a are the first rows of b
IsPrefix(a, b) == Len(a) <= Len(b) /\ SubSeq(b, 1, Len(a)) = a

\* C28: the rows that a session appends to its file stay in the file in the
\* order in which they were appended, and a later GET_FILE for the file sends
\* one line for each row, in the order of the rows, each with what the row
\* holds: no row is split, merged, dropped or moved.
C28_RowsComeBackInOrder ==
    [][ /\ MangoFile \in DOMAIN sdFiles /\ MangoFile \in DOMAIN sdFiles'
           => \/ IsPrefix(sdFiles[MangoFile], sdFiles'[MangoFile])
              \/ /\ Got(NewDryingCmd(Mango, Date1, Time1))
                 /\ sdFiles'[MangoFile] = <<HeaderRow>>
        /\ Fetched(MangoFile)
           => LET rows == sdFiles[MangoFile]
                  sent == ContentLines(btOut')
              IN  /\ Len(sent) = Len(rows)
                  /\ \A i \in 1..Len(rows) :
                        /\ sent[i].t # "part"
                        /\ sent[i].row = rows[i]
                  /\ sdFiles' = sdFiles ]_vars

\* the file of a session that has been continued and has logged has been
\* fetched: its header, its marker row and a data row have been sent
C28_SessionFileFetched ==
    /\ rxBytes = GetFileCmd(MangoFile) \o <<LF>>
    /\ \E i, j, k \in 1..Len(btOut) :
          /\ i < j /\ j # k
          /\ btOut[i].t = "header"
          /\ btOut[j].t = "marker"
          /\ btOut[k].t = "data"
    /\ btOut[Len(btOut)] = Line("FILE_CONTENT_END")

\* the controller state and what makes up the session
sessionVars ==
    <<currentState, isLogging, fileOpen, currentFileNameBuffer, currentFruit,
      sessionStartTime, sessionStartMillis, initialDateTime, sdFiles>>

\* C29: every complete non-empty command line, in every controller state, is
\* answered with at least one line, and a command line that is not well
\* formed leaves the controller state and the session as they were.
C29_EveryCommandAnswered ==
    [][ \A i \in MalformedInputs :
          Got(i.cmd)
          => /\ btOut' # <<>>
             /\ i.cmd \in Malformed => UNCHANGED sessionVars ]_vars

\* C30: START received while the is-logging flag is set, after an earlier
\* START or after a CONTINUED_DRYING that succeeded, is answered with the one
\* line STATUS:ALREADY_LOGGING and changes nothing: not the state, the flag,
\* the file, the configuration or the time from which the session counts its
\* elapsed time, and no time passes.
C30_StartIdempotent ==
    [][ (Got(kSTART) /\ isLogging)
        => /\ btOut' = <<Line("STATUS:ALREADY_LOGGING")>>
           /\ sessionStartMillis' = sessionStartMillis
           /\ now' = now
           /\ UNCHANGED progVars ]_vars

\* START has been repeated a second after the session began to log
C30_RepeatedStart ==
    /\ rxBytes = kSTART \o <<LF>>
    /\ btOut = <<Line("STATUS:ALREADY_LOGGING")>>
    /\ isLogging
    /\ now > sessionStartMillis

\* the step creates a session file: NEW_DRYING is answered OK:FILE_CREATED
Created ==
    /\ \E l \in Labels : Got(NewDryingCmd(l, Date1, Time1))
    /\ Line("OK:FILE_CREATED") \in Lines(btOut')

\* C31: the file name that a successful NEW_DRYING has created is on record
\* from then on: no STOP, soft reset, power cycle or command that creates no
\* session changes it, and a CONTINUED_DRYING with a valid date and time
\* that finds the file on the card opens the file of that name and appends
\* its marker row to it.
C31_ContinuedReopensCreated ==
    [][ /\ Created
           => /\ eepromFilename' = currentFileNameBuffer'
              /\ sdFiles'[eepromFilename'] = <<HeaderRow>>
        /\ ~Created => eepromFilename' = eepromFilename
        /\ ( /\ Got(ContinuedDryingCmd(Date1, Time1))
             /\ currentState = WAITING_FOR_COMMAND
             /\ eepromFilename \in DOMAIN sdFiles
             /\ Line("ERROR:Could not open file for appending")
                   \notin Lines(btOut') )
           => /\ currentFileNameBuffer' = eepromFilename
              /\ fileOpen'
              /\ currentState' = LOGGING_DATA
              /\ DOMAIN sdFiles' = DOMAIN sdFiles
              /\ \A n \in DOMAIN sdFiles :
                    sdFiles'[n] = IF n = eepromFilename
                                  THEN Append(sdFiles[n], Marker1)
                                  ELSE sdFiles[n] ]_vars

\* the file of the first of two sessions is on the card, the power has been
\* cycled since the second session was created, and CONTINUED_DRYING has
\* opened the file of the second session
C31_ReopenedAfterPowerCycle ==
    /\ rxBytes = ContinuedDryingCmd(Date1, Time1) \o <<LF>>
    /\ Cardinality(DOMAIN sdFiles) = 2
    /\ fileOpen
    /\ currentFileNameBuffer = eepromFilename
    /\ sdFiles[eepromFilename] = <<HeaderRow, Marker1>>
    /\ now < BootMs + StopDelayMs + ResetSettleMs

\* C32: NEW_DRYING or CONTINUED_DRYING received while Idle with a date and a
\* time that are out of range, or that are not eight and six characters
\* long, is answered with the one line ERROR:Invalid datetime format; there
\* is no soft reset, no file is created or opened, and the controller state,
\* the file name on record and the is-logging flag stay as they were.
C32_BadDateRejected ==
    [][ (currentState = WAITING_FOR_COMMAND
         /\ \E c \in BadDateCommands : Got(c))
        => /\ btOut' = <<Line("ERROR:Invalid datetime format")>>
           /\ UNCHANGED <<currentState, isLogging, fileOpen, eepromFilename,
                          sdFiles, now>> ]_vars

\* the rows of every file that follow one another as data rows count a time
\* that does not decrease
RowsInOrder(files) ==
    \A n \in DOMAIN files :
       \A i \in 1..(Len(files[n]) - 1) :
          (files[n][i].k = "data" /\ files[n][i + 1].k = "data")
          => AtLeast32(files[n][i + 1].ms, files[n][i].ms)

\* C33: the elapsed time of a row that a pass writes is the time that has
\* passed since START or CONTINUED_DRYING set the origin of the session, so
\* it is not more than the time that has passed when the row is written,
\* also in the pass that handled that command; and the data rows that follow
\* one another in a file count a time that does not decrease.
C33_ElapsedIsTimeSinceOrigin ==
    [][ (PassEnds /\ OneRowAppended)
        => /\ AtLeast32(Sub32(now, sessionStartMillis), LastRow.ms)
           /\ RowsInOrder(sdFiles') ]_vars

\* the pass ends Idle and sends the periodic alert
PeriodicAlert ==
    /\ PassEnds
    /\ currentState = WAITING_FOR_COMMAND
    /\ Line("ALERT:SYSTEM_READY") \in Lines(btOut')

\* C34: while the controller is Idle, the periodic alert of a pass follows
\* the alert before it, whose time lastAlertTime holds, by alert_interval at
\* least, also when that alert was the one of a soft reset.
C34_AlertsApart ==
    [][ PeriodicAlert
        => AtLeast32(Sub32(now, lastAlertTime), alert_interval) ]_vars

\* C35: in every state from boot on, the power-source flag that telemetry
\* and log rows report agrees with the level that the relay pin drives.
C35_FlagAgreesWithRelay == usingSolar <=> relay = SOLAR_POWER_ACTIVE

\* C36: whatever record the EEPROM holds, the configuration in force after
\* loadConfig has its low threshold below its high threshold.
C36_LoadedThresholdsOrdered ==
    [][ Reboot
        => config'.solar_threshold_low < config'.solar_threshold_high ]_vars

\* the fields that hold a dwell time or an interval
TimingFields ==
    {"min_dwell_time", "reinit_interval", "sd_log_interval",
     "display_interval", "bluetooth_interval"}

\* C37: after any sequence of SET commands the dwell time and the four
\* intervals in memory are above zero and within the ranges that loadConfig
\* accepts.
C37_TimingsStaySane ==
    \A f \in TimingFields :
       InSaneRange(f, config[f], config.solar_threshold_low)

\* C38: between two passes, whatever commands were handled and whatever
\* opens of the card failed, the is-logging flag is set only in LOGGING_DATA
\* and the controller is in LOGGING_DATA exactly when the session file is
\* open; START never finds the file closed.
C38_LoggingStateHasOpenFile ==
    /\ BetweenPasses
       => /\ isLogging => currentState = LOGGING_DATA
          /\ currentState = LOGGING_DATA <=> fileOpen
    /\ Line("ERROR:No file open to start logging.") \notin Lines(btOut)

\* a session logs between two passes on a device on which the creation of a
\* file has failed before
C38_LoggingAfterFailure ==
    /\ BetweenPasses
    /\ ~sdCardAvailable
    /\ isLogging
    /\ fileOpen
    /\ currentState = LOGGING_DATA

\* the step handles a NEW_DRYING that creates the file of the name n
CreatedAs(n) ==
    /\ \E l \in Labels : Got(NewDryingCmd(l, Date1, Time1))
    /\ currentFileNameBuffer' = n
    /\ Line("OK:FILE_CREATED") \in Lines(btOut')

\* C39: no step removes a file or rewrites its rows: the rows that a file
\* holds before CONTINUED_DRYING, START, STOP, RESET_SYSTEM or a pass of the
\* loop are the first rows that it holds afterwards; only a NEW_DRYING that
\* creates a file of the same name leaves the file with its header alone.
C39_RowsOnlyAppended ==
    [][ \A n \in DOMAIN sdFiles :
          /\ n \in DOMAIN sdFiles'
          /\ \/ IsPrefix(sdFiles[n], sdFiles'[n])
             \/ CreatedAs(n) /\ sdFiles'[n] = <<HeaderRow>> ]_vars

\* a session that had logged a row and was stopped has been continued: the
\* marker row follows the rows that were there
C39_ContinuedAfterRows ==
    /\ rxBytes = ContinuedDryingCmd(Date1, Time1) \o <<LF>>
    /\ fileOpen
    /\ LET rows == sdFiles[currentFileNameBuffer]
       IN  /\ Len(rows) = 3
           /\ rows[1] = HeaderRow
           /\ rows[2].k = "data"
           /\ rows[3] = Marker1

\* every field of the record r lies within the range that loadConfig tests
AllSane(r) ==
    \A f \in ConfigFields : InSaneRange(f, r[f], r.solar_threshold_low)

\* C40: a SAVECONFIG, in whatever state it arrives, stores the eight values
\* in memory as they are, and the boot that follows restores exactly the
\* stored record when every field of it lies within its range; a stored field
\* outside its range, as a SET may have left it, comes back as the
\* compiled-in default.
C40_SaveLoadRoundTrip ==
    [][ /\ Got(kSAVECONFIG)
           => eepromConfig' = config /\ config' = config
        /\ Reboot
           => /\ AllSane(eepromConfig) => config' = eepromConfig
              /\ \A f \in ConfigFields :
                   ~InSaneRange(f, eepromConfig[f],
                                eepromConfig.solar_threshold_low)
                   => config'[f] = DefaultConfig[f] ]_vars

=============================================================================
